---- MODULE Spec2Model ----
(***************************************************************************)
(* Quote pricing engine and quote status workflow of printy_API.           *)
(*                                                                         *)
(* Money.  Configured prices and persisted prices are DecimalField values  *)
(* with two decimals and are held here as integers in cents.  Values the   *)
(* engine computes in memory can carry up to six more decimals (areas are  *)
(* millimetres divided by 1000 twice), so computed amounts are held in     *)
(* micro-cents (Scale micro-cents = 1 cent) and a unit price, the result   *)
(* of a Decimal division, as the exact fraction unit_num / unit_den.       *)
(* Saving a computed amount quantizes it to cents, round half even.        *)
(***************************************************************************)
EXTENDS Integers, Sequences, FiniteSets, TLC

\* ------------------------------------------------------------------------
\* Bounds of the model
\* ------------------------------------------------------------------------
MaxQuotes == 2
MaxItems == 2
MaxCfgChanges == 1
MaxRuns == 2
MaxLockQuotes == 1

MaxQuantity == 12
MaxPieces == 5

MaxDrafts == 3

\* ------------------------------------------------------------------------
\* Program constants
\* ------------------------------------------------------------------------
Scale == 1000000
BLEED_MM == 3

NULL == -1
NoId == 0

Users == {"buyer", "owner", "other"}
ShopOwner == "owner"
Creators == {"buyer"}

\* The shop holds one record of each kind of configuration; Pk is its
\* primary key, as the foreign keys of a quote item hold it.
Pk == 1

\* ------------------------------------------------------------------------
\* Decimal helpers
\* ------------------------------------------------------------------------
Max2(a, b) == IF a >= b THEN a ELSE b

Max3(a, b, c) == Max2(a, Max2(b, c))

CeilDiv(a, b) == (a + b - 1) \div b

\* Python truthiness of a nullable number: None and 0 are both false.
Truthy(x) == x # NULL /\ x # 0

\* num/den quantized to a whole multiple of unit, round half even.
RoundHalfEven(num, den) ==
    LET q == num \div den
        r == num % den
    IN  IF 2 * r > den \/ (2 * r = den /\ q % 2 = 1) THEN q + 1 ELSE q

\* A computed amount in micro-cents as the DecimalField(decimal_places=2)
\* stores it, in cents.
Quantize2(num, den) == RoundHalfEven(num, den * Scale)

\* ------------------------------------------------------------------------
\* Imposition
\* ------------------------------------------------------------------------
\* pieces_per_sheet without the rotated orientation.
pieces_per_sheet_unrotated(finished_width_mm, finished_height_mm, sheet_width_mm, sheet_height_mm, bleed_mm) ==
    LET pw == finished_width_mm + 2 * bleed_mm
        ph == finished_height_mm + 2 * bleed_mm
    IN  IF pw <= 0 \/ ph <= 0 \/ sheet_width_mm <= 0 \/ sheet_height_mm <= 0
        THEN 1
        ELSE Max2(1, Max2(0, sheet_width_mm \div pw) * Max2(0, sheet_height_mm \div ph))

pieces_per_sheet(finished_width_mm, finished_height_mm, sheet_width_mm, sheet_height_mm, bleed_mm) ==
    LET pw == finished_width_mm + 2 * bleed_mm
        ph == finished_height_mm + 2 * bleed_mm
    IN  IF pw <= 0 \/ ph <= 0 \/ sheet_width_mm <= 0 \/ sheet_height_mm <= 0
        THEN 1
        ELSE LET n1 == Max2(0, sheet_width_mm \div pw) * Max2(0, sheet_height_mm \div ph)
                 n2 == Max2(0, sheet_width_mm \div ph) * Max2(0, sheet_height_mm \div pw)
             IN  Max3(1, n1, n2)

\* sheets_needed that rounds down.
sheets_needed_floor(quantity, pieces) ==
    IF pieces <= 0 THEN Max2(1, quantity) ELSE Max2(1, quantity \div pieces)

\* sheets_needed without the floor of one sheet.
sheets_needed_unfloored(quantity, pieces) ==
    IF pieces <= 0 THEN Max2(1, quantity) ELSE CeilDiv(quantity, pieces)

sheets_needed(quantity, pieces) ==
    IF pieces <= 0 THEN Max2(1, quantity) ELSE Max2(1, CeilDiv(quantity, pieces))

get_copies_per_sheet(product, sheet_width_mm, sheet_height_mm) ==
    pieces_per_sheet(product.default_finished_width_mm,
                     product.default_finished_height_mm,
                     sheet_width_mm, sheet_height_mm,
                     IF product.default_bleed_mm # 0 THEN product.default_bleed_mm ELSE BLEED_MM)

\* ------------------------------------------------------------------------
\* Rate resolvers
\* ------------------------------------------------------------------------
get_price_for_sides(rate, sides) ==
    IF sides = "DUPLEX" THEN rate.double_price ELSE rate.single_price

\* PrintingRate.resolve: the price per sheet in cents, NULL when no active
\* rate matches (machine, sheet_size, color_mode).
resolve(c, machine, sheet_size, color_mode, sides) ==
    LET r == c.rate
    IN  IF r.exists /\ r.machine = machine /\ r.sheet_size = sheet_size
           /\ r.color_mode = color_mode /\ r.is_active
        THEN get_price_for_sides(r, sides)
        ELSE NULL

\* get_price_for_distance that takes the first band in ascending min_km.
get_price_for_distance_ascending(service_rate, distance_km) ==
    IF service_rate.pricing_type # "TIERED_DISTANCE" THEN service_rate.price
    ELSE IF distance_km = NULL THEN NULL
    ELSE LET fit == {t \in service_rate.tiers :
                        t.min_km <= distance_km
                        /\ (t.max_km = NULL \/ t.max_km >= distance_km)}
         IN  IF fit = {} THEN NULL
             ELSE (CHOOSE t \in fit : \A u \in fit : u.min_km >= t.min_km).price

\* ServiceRate.get_price_for_distance: cents, or NULL.
get_price_for_distance(service_rate, distance_km) ==
    IF service_rate.pricing_type # "TIERED_DISTANCE" THEN service_rate.price
    ELSE IF distance_km = NULL THEN NULL
    ELSE LET fit == {t \in service_rate.tiers :
                        t.min_km <= distance_km
                        /\ (t.max_km = NULL \/ t.max_km >= distance_km)}
         IN  IF fit = {} THEN NULL
             ELSE (CHOOSE t \in fit : \A u \in fit : u.min_km <= t.min_km).price

get_service_price(service_rate, price_override, distance_km) ==
    IF price_override # NULL THEN price_override
    ELSE IF service_rate.pricing_type = "FIXED" THEN service_rate.price
    ELSE IF service_rate.pricing_type = "TIERED_DISTANCE"
         THEN get_price_for_distance(service_rate, distance_km)
    ELSE NULL

\* ------------------------------------------------------------------------
\* Finishing cost, in micro-cents.  area is in square millimetres, which is
\* the area in square metres times Scale.
\* ------------------------------------------------------------------------
sides_count(sides) == IF sides = "" THEN 1 ELSE IF sides = "DUPLEX" THEN 2 ELSE 1

sheet_area_sqm(paper) ==
    LET w == IF paper.width_mm = NULL THEN 0 ELSE paper.width_mm
        h == IF paper.height_mm = NULL THEN 0 ELSE paper.height_mm
    IN  IF w = 0 \/ h = 0 THEN 0 ELSE w * h

\* _apply_finishing_cost that lets the override act on PER_SHEET too.
apply_finishing_cost_override_per_sheet(finishing_rate, quantity, area, sides_cnt, price_override, apply_to_sides, sheets_needed_val) ==
    LET price_single == IF price_override # NULL THEN price_override ELSE finishing_rate.price
        price_double == IF price_override # NULL THEN price_override * 2
                        ELSE IF finishing_rate.double_side_price # NULL
                             THEN finishing_rate.double_side_price
                             ELSE finishing_rate.price * 2
        effective_sides == IF apply_to_sides = "SINGLE" THEN 1
                           ELSE IF apply_to_sides = "DOUBLE" THEN 2
                           ELSE sides_cnt
        setup == IF Truthy(finishing_rate.setup_fee) THEN finishing_rate.setup_fee ELSE 0
        unit == finishing_rate.charge_unit
    IN  IF unit = "PER_PIECE"
        THEN (IF effective_sides = 2 THEN price_double ELSE price_single) * quantity * Scale
        ELSE IF unit = "PER_SIDE"
        THEN price_single * quantity * effective_sides * Scale
        ELSE IF unit = "PER_SHEET"
        THEN LET sheets == IF sheets_needed_val # 0 THEN sheets_needed_val ELSE Max2(1, quantity)
             IN  (price_single * sheets + setup) * Scale
        ELSE IF unit = "PER_SQM"
        THEN finishing_rate.price * area
        ELSE IF unit = "FLAT"
        THEN ((IF effective_sides = 2 THEN price_double ELSE price_single) + setup) * Scale
        ELSE 0

apply_finishing_cost(finishing_rate, quantity, area, sides_cnt, price_override, apply_to_sides, sheets_needed_val) ==
    LET price_single == IF price_override # NULL THEN price_override ELSE finishing_rate.price
        price_double == IF price_override # NULL THEN price_override * 2
                        ELSE IF finishing_rate.double_side_price # NULL
                             THEN finishing_rate.double_side_price
                             ELSE finishing_rate.price * 2
        effective_sides == IF apply_to_sides = "SINGLE" THEN 1
                           ELSE IF apply_to_sides = "DOUBLE" THEN 2
                           ELSE sides_cnt
        setup == IF Truthy(finishing_rate.setup_fee) THEN finishing_rate.setup_fee ELSE 0
        unit == finishing_rate.charge_unit
    IN  IF unit = "PER_PIECE"
        THEN (IF effective_sides = 2 THEN price_double ELSE price_single) * quantity * Scale
        ELSE IF unit = "PER_SIDE"
        THEN price_single * quantity * effective_sides * Scale
        ELSE IF unit = "PER_SHEET"
        THEN LET sheets == IF sheets_needed_val # 0 THEN sheets_needed_val ELSE Max2(1, quantity)
             IN  (finishing_rate.price * sheets + setup) * Scale
        ELSE IF unit = "PER_SQM"
        THEN finishing_rate.price * area
        ELSE IF unit = "FLAT"
        THEN ((IF effective_sides = 2 THEN price_double ELSE price_single) + setup) * Scale
        ELSE 0

\* ------------------------------------------------------------------------
\* Quote item pricing
\* ------------------------------------------------------------------------
get_effective_pricing_mode(c, item) ==
    IF item.item_type = "PRODUCT" /\ item.product # NoId
    THEN (IF c.product.pricing_mode # "" THEN c.product.pricing_mode ELSE "SHEET")
    ELSE IF item.pricing_mode # "" THEN item.pricing_mode
    ELSE IF item.material # NoId THEN "LARGE_FORMAT" ELSE "SHEET"

\* FinishingCosts with the loop over the finishings left out.
FinishingCosts_none(c, fins, quantity, area, sides_cnt, sheets_count) == 0

RECURSIVE FinishingCosts(_, _, _, _, _, _)
\* The loop over item.finishings: the sum of apply_finishing_cost.
FinishingCosts(c, fins, quantity, area, sides_cnt, sheets_count) ==
    IF fins = {} THEN 0
    ELSE LET qif == CHOOSE f \in fins : TRUE
         IN  apply_finishing_cost(c.finishing[qif.finishing_rate], quantity, area, sides_cnt,
                                  qif.price_override, qif.apply_to_sides, sheets_count)
             + FinishingCosts(c, fins \ {qif}, quantity, area, sides_cnt, sheets_count)

RECURSIVE ServiceCosts_unselected(_, _)
\* ServiceCosts without the is_selected filter.
ServiceCosts_unselected(c, svcs) ==
    IF svcs = {} THEN 0
    ELSE LET qs == CHOOSE s \in svcs : TRUE
             price == get_service_price(c.service[qs.service_rate], qs.price_override,
                                        qs.distance_km)
         IN  (IF price # NULL THEN price * Scale ELSE 0)
             + ServiceCosts_unselected(c, svcs \ {qs})

RECURSIVE ServiceCosts(_, _)
\* The loop over the selected services of an item (no distance is passed) or
\* of a quote request: the sum of the prices that resolve.
ServiceCosts(c, svcs) ==
    IF svcs = {} THEN 0
    ELSE LET qs == CHOOSE s \in svcs : TRUE
             price == get_service_price(c.service[qs.service_rate], qs.price_override,
                                        qs.distance_km)
         IN  (IF qs.is_selected /\ price # NULL THEN price * Scale ELSE 0)
             + ServiceCosts(c, svcs \ {qs})

ItemServices(item) ==
    {[service_rate |-> s.service_rate, is_selected |-> s.is_selected,
      price_override |-> s.price_override, distance_km |-> NULL] : s \in item.services}

Zero == [unit_num |-> 0, unit_den |-> 1, line_total |-> 0]

StoredOrZero(v) == IF v = NULL THEN 0 ELSE v * Scale

\* calculate_quote_item past its lock check: unit price (a fraction of
\* micro-cents) and line total (micro-cents) from the configuration c.
calculate_unlocked(c, item) ==
    LET has_product == item.product # NoId
        quantity == item.quantity
        pricing_mode == get_effective_pricing_mode(c, item)
        sides_cnt == sides_count(item.sides)
    IN  IF quantity <= 0 THEN Zero
        ELSE IF item.item_type = "PRODUCT" /\ ~has_product THEN Zero
        ELSE IF pricing_mode = "SHEET"
        THEN IF item.paper = NoId THEN Zero
             ELSE LET paper == c.paper
                      pieces == IF has_product /\ Truthy(paper.width_mm) /\ Truthy(paper.height_mm)
                                THEN get_copies_per_sheet(c.product, paper.width_mm, paper.height_mm)
                                ELSE 1
                      sheets_count == sheets_needed(quantity, pieces)
                      print_price == IF item.machine # NoId /\ item.sides # "" /\ item.color_mode # ""
                                     THEN resolve(c, item.machine, paper.sheet_size,
                                                  item.color_mode, item.sides)
                                     ELSE NULL
                      area == sheet_area_sqm(paper) * sheets_count
                      total == paper.selling_price * sheets_count * Scale
                               + (IF print_price # NULL THEN print_price * sheets_count * Scale ELSE 0)
                               + FinishingCosts(c, item.finishings, quantity, area, sides_cnt, sheets_count)
                               + ServiceCosts(c, ItemServices(item))
                  IN  [unit_num |-> total, unit_den |-> quantity, line_total |-> total]
        ELSE IF pricing_mode = "LARGE_FORMAT"
        THEN IF item.material = NoId \/ ~Truthy(item.chosen_width_mm) \/ ~Truthy(item.chosen_height_mm)
             THEN Zero
             ELSE LET area == item.chosen_width_mm * item.chosen_height_mm * quantity
                      total == c.material.selling_price * area
                               + FinishingCosts(c, item.finishings, quantity, area, sides_cnt, 0)
                               + ServiceCosts(c, ItemServices(item))
                  IN  [unit_num |-> total, unit_den |-> quantity, line_total |-> total]
        ELSE Zero

\* The stored pair of a locked item.
Stored(item) ==
    [unit_num |-> StoredOrZero(item.unit_price), unit_den |-> 1,
     line_total |-> StoredOrZero(item.line_total)]

\* calculate_quote_item that never looks at the lock.
calculate_ignoring_lock(c, item, force) == calculate_unlocked(c, item)

\* calculate_quote_item that never looks at force.
calculate_ignoring_force(c, item, force) ==
    IF item.pricing_locked_at # NULL THEN Stored(item) ELSE calculate_unlocked(c, item)

\* calculate_quote_item(item, force)
calculate_quote_item(c, item, force) ==
    IF item.pricing_locked_at # NULL /\ ~force
    THEN Stored(item)
    ELSE calculate_unlocked(c, item)

\* ------------------------------------------------------------------------
\* Missing fields and diagnostics
\* ------------------------------------------------------------------------
\* The query of PrintingRate.resolve finds a rate.
resolve_finds_rate(c, machine, sheet_size, color_mode) ==
    LET r == c.rate
    IN  r.exists /\ r.machine = machine /\ r.sheet_size = sheet_size
        /\ r.color_mode = color_mode /\ r.is_active

\* get_quote_item_missing_fields(item): the sequence of (model label, field
\* name) pairs.  The f-string of the missing rate is kept as its fixed part.
get_quote_item_missing_fields(c, item) ==
    LET has_product == item.product # NoId
        quantity == item.quantity
        pricing_mode == get_effective_pricing_mode(c, item)
    IN  IF item.item_type = "PRODUCT" /\ ~has_product
        THEN << <<"QuoteItem", "product">> >>
        ELSE IF item.item_type = "CUSTOM" /\ ~item.has_text
        THEN << <<"QuoteItem", "title or spec_text">> >>
        ELSE IF quantity <= 0
        THEN << <<"QuoteItem", "quantity">> >>
        ELSE IF pricing_mode = "SHEET"
        THEN LET m1 == IF has_product
                          /\ (~Truthy(c.product.default_finished_width_mm)
                              \/ ~Truthy(c.product.default_finished_height_mm))
                       THEN << <<"Product", "default_finished_width_mm, default_finished_height_mm">> >>
                       ELSE <<>>
             IN  IF item.paper = NoId
                 THEN m1 \o << <<"QuoteItem", "paper">> >>
                 ELSE LET paper == c.paper
                          m2 == IF ~Truthy(paper.selling_price)
                                THEN << <<"Paper", "selling_price">> >> ELSE <<>>
                          m3 == IF item.machine # NoId /\ item.sides # "" /\ item.color_mode # ""
                                THEN IF ~resolve_finds_rate(c, item.machine, paper.sheet_size,
                                                            item.color_mode)
                                     THEN << <<"PrintingRate", "Create rate: machine + sheet_size + color_mode">> >>
                                     ELSE IF resolve(c, item.machine, paper.sheet_size,
                                                     item.color_mode, item.sides) = NULL
                                     THEN << <<"PrintingRate", "single_price / double_price">> >>
                                     ELSE <<>>
                                ELSE (IF item.machine = NoId
                                      THEN << <<"QuoteItem", "machine">> >> ELSE <<>>)
                                     \o (IF item.sides = ""
                                         THEN << <<"QuoteItem", "sides">> >> ELSE <<>>)
                                     \o (IF item.color_mode = ""
                                         THEN << <<"QuoteItem", "color_mode">> >> ELSE <<>>)
                          m4 == IF paper.width_mm = NULL \/ paper.height_mm = NULL
                                THEN << <<"Paper", "width_mm, height_mm (for PER_SQM finishing)">> >>
                                ELSE <<>>
                      IN  m1 \o m2 \o m3 \o m4
        ELSE IF pricing_mode = "LARGE_FORMAT"
        THEN IF item.material = NoId
             THEN << <<"QuoteItem", "material">> >>
             ELSE (IF ~Truthy(item.chosen_width_mm)
                   THEN << <<"QuoteItem", "chosen_width_mm">> >> ELSE <<>>)
                  \o (IF ~Truthy(item.chosen_height_mm)
                      THEN << <<"QuoteItem", "chosen_height_mm">> >> ELSE <<>>)
                  \o (IF ~Truthy(c.material.selling_price)
                      THEN << <<"Material", "selling_price">> >> ELSE <<>>)
        ELSE << <<"QuoteItem", "pricing_mode (SHEET or LARGE_FORMAT)">> >>

\* The if-chain of _missing_fields_for_item applied to one pair: the tests
\* are substring tests on the label and on the field name, here decided for
\* each pair that get_quote_item_missing_fields can emit.
FlatName(pair) ==
    LET model_label == pair[1]
        field_name == pair[2]
    IN  IF model_label = "PrintingRate" THEN "printing_rate"
        ELSE IF model_label = "Product" THEN "dimensions"
        ELSE IF field_name \in {"chosen_width_mm", "chosen_height_mm"} THEN "dimensions"
        ELSE IF field_name = "paper" THEN "paper"
        ELSE IF field_name = "material" THEN "material"
        ELSE IF field_name = "machine" THEN "machine"
        ELSE IF field_name = "product" THEN "product"
        ELSE IF field_name = "quantity" THEN "quantity"
        ELSE IF field_name = "sides" THEN "sides"
        ELSE IF field_name = "color_mode" THEN "color_mode"
        ELSE IF field_name = "selling_price" THEN "selling_price"
        ELSE IF field_name = "title or spec_text" THEN "title_or_spec_text"
        ELSE IF field_name = "width_mm, height_mm (for PER_SQM finishing)"
        THEN "width_mm,_height_mm_(for_PER_SQM_finishing)"
        ELSE "pricing_mode_(SHEET_or_LARGE_FORMAT)"

Elems(seq) == {seq[k] : k \in DOMAIN seq}

RECURSIVE Flatten(_, _)
\* The loop of _missing_fields_for_item: the flat names in order, each once.
Flatten(raw, out) ==
    IF raw = <<>> THEN out
    ELSE LET name == FlatName(Head(raw))
         IN  Flatten(Tail(raw), IF name \in Elems(out) THEN out ELSE Append(out, name))

\* _missing_fields_for_item(item)
missing_fields_for_item(c, item) == Flatten(get_quote_item_missing_fields(c, item), <<>>)

\* build_suggestion: the code and the values the message is built from.
build_suggestion(code, names) == [code |-> code, names |-> names]

\* _get_item_pricing_mode that looks at the item's own mode first.
get_item_pricing_mode_own_first(c, item) ==
    IF item.pricing_mode # "" THEN item.pricing_mode
    ELSE IF item.item_type = "PRODUCT" /\ item.product # NoId
    THEN (IF c.product.pricing_mode # "" THEN c.product.pricing_mode ELSE "SHEET")
    ELSE IF item.material # NoId THEN "LARGE_FORMAT" ELSE "SHEET"

\* diagnostics._get_item_pricing_mode(item)
get_item_pricing_mode(c, item) ==
    IF item.item_type = "PRODUCT" /\ item.product # NoId
    THEN (IF c.product.pricing_mode # "" THEN c.product.pricing_mode ELSE "SHEET")
    ELSE IF item.pricing_mode # "" THEN item.pricing_mode
    ELSE IF item.material # NoId THEN "LARGE_FORMAT" ELSE "SHEET"

\* The branch of build_item_diagnostics for one flat name: its suggestions.
SuggestionsFor(c, item, mf) ==
    LET pricing_mode == get_item_pricing_mode(c, item)
    IN  IF mf = "paper"
        THEN << build_suggestion("ADD_PAPER",
                                 IF item.paper # NoId THEN <<c.paper.sheet_size>> ELSE <<>>) >>
        ELSE IF mf = "machine" THEN << build_suggestion("SELECT_MACHINE", <<>>) >>
        ELSE IF mf = "printing_rate"
        THEN << build_suggestion("ADD_PRINTING_RATE",
                   << IF item.machine # NoId THEN c.machine.name ELSE "machine",
                      IF item.paper # NoId THEN c.paper.sheet_size ELSE "sheet",
                      IF item.color_mode # "" THEN item.color_mode ELSE "COLOR" >>) >>
        ELSE IF mf = "quantity" THEN << build_suggestion("ADD_QUANTITY", <<>>) >>
        ELSE IF mf = "dimensions"
        THEN << build_suggestion("ADD_DIMENSIONS", <<pricing_mode = "LARGE_FORMAT">>) >>
        ELSE IF mf = "color_mode" THEN << build_suggestion("SELECT_COLOR_MODE", <<>>) >>
        ELSE IF mf = "sides" THEN << build_suggestion("SELECT_SIDES", <<>>) >>
        ELSE IF mf = "material" THEN << build_suggestion("ADD_MATERIAL_PRICE", <<>>) >>
        ELSE IF mf = "product" THEN << build_suggestion("SELECT_PRODUCT", <<>>) >>
        ELSE IF mf = "title" THEN << build_suggestion("ADD_TITLE", <<>>) >>
        ELSE <<>>

RECURSIVE AllSuggestions(_, _, _)
AllSuggestions(c, item, flat) ==
    IF flat = <<>> THEN <<>>
    ELSE SuggestionsFor(c, item, Head(flat)) \o AllSuggestions(c, item, Tail(flat))

RECURSIVE UniqueByCode(_, _)
\* "Deduplicate suggestions by code": the first suggestion of each code.
UniqueByCode(suggestions, out) ==
    IF suggestions = <<>> THEN out
    ELSE UniqueByCode(Tail(suggestions),
                      IF Head(suggestions).code \in {x.code : x \in Elems(out)}
                      THEN out ELSE Append(out, Head(suggestions)))

\* build_item_diagnostics(item, missing_raw, missing_flat, shop_id)
build_item_diagnostics(c, item, missing_flat) ==
    LET has_per_sheet_finishing ==
            \E qif \in item.finishings : c.finishing[qif.finishing_rate].charge_unit = "PER_SHEET"
        extra == IF has_per_sheet_finishing /\ "dimensions" \in Elems(missing_flat)
                 THEN << build_suggestion("ADD_DIMENSIONS_FOR_FINISHING",
                            <<get_item_pricing_mode(c, item) = "LARGE_FORMAT">>) >>
                 ELSE <<>>
    IN  [can_calculate |-> FALSE,
         missing_fields |-> missing_flat,
         suggestions |-> UniqueByCode(AllSuggestions(c, item, missing_flat) \o extra, <<>>)]

\* ------------------------------------------------------------------------
\* State
\* ------------------------------------------------------------------------
VARIABLES
    quotes,       \* QuoteRequest rows: id -> [created_by, status, total, notes]
    items,        \* QuoteItem rows: id -> record (finishings and services inlined)
    nextQuoteId,  \* next QuoteRequest primary key
    nextItemId,   \* next QuoteItem primary key
    cfg,          \* the shop's pricing configuration
    cfgChanges,   \* number of configuration changes made so far
    resp,         \* the last response: [op, code]
    runs,         \* Price requests in progress: run -> position and locals
    calc          \* the last direct call of calculate_quote_item and its result

vars == <<quotes, items, nextQuoteId, nextItemId, cfg, cfgChanges, resp, runs, calc>>

Statuses == {"DRAFT", "SUBMITTED", "PRICED", "SENT", "ACCEPTED", "REJECTED"}

\* ------------------------------------------------------------------------
\* Inputs
\* ------------------------------------------------------------------------
PaperPrices == {10, 25}
MaterialPrices == {3, 5}
RatePrices == {15, 40}
FinishingPrices == {2, 7}

InitCfg ==
    [paper |-> [exists |-> TRUE, selling_price |-> 10, width_mm |-> 320, height_mm |-> 450,
                sheet_size |-> "SRA3"],
     material |-> [exists |-> TRUE, selling_price |-> 3],
     machine |-> [exists |-> TRUE, name |-> "Digital Press"],
     rate |-> [exists |-> TRUE, machine |-> Pk, sheet_size |-> "SRA3", color_mode |-> "COLOR",
               single_price |-> 15, double_price |-> 25, is_active |-> TRUE],
     finishing |-> <<[exists |-> TRUE, charge_unit |-> "PER_SQM", price |-> 2,
                      double_side_price |-> NULL, setup_fee |-> NULL],
                     [exists |-> TRUE, charge_unit |-> "FLAT", price |-> 7,
                      double_side_price |-> 11, setup_fee |-> 5]>>,
     service |-> <<[pricing_type |-> "FIXED", price |-> 50, tiers |-> {}],
                   [pricing_type |-> "TIERED_DISTANCE", price |-> NULL,
                    tiers |-> {[min_km |-> 0, max_km |-> 5, price |-> 20],
                               [min_km |-> 5, max_km |-> NULL, price |-> 35]}]>>,
     product |-> [exists |-> TRUE, pricing_mode |-> "SHEET",
                  default_finished_width_mm |-> 140, default_finished_height_mm |-> 170,
                  default_bleed_mm |-> 3]]

NoFinishing == {}
OneFinishing == {[finishing_rate |-> Pk, price_override |-> NULL, apply_to_sides |-> "BOTH"]}

\* Request bodies of the item endpoints (QuoteItemWriteSerializer.Meta.fields).
SheetInput ==
    [item_type |-> "CUSTOM", product |-> NoId, has_text |-> TRUE, quantity |-> 2,
     pricing_mode |-> "SHEET", paper |-> Pk, material |-> NoId,
     chosen_width_mm |-> NULL, chosen_height_mm |-> NULL,
     sides |-> "DUPLEX", color_mode |-> "COLOR", machine |-> Pk, finishings |-> OneFinishing]

LargeFormatInput ==
    [item_type |-> "CUSTOM", product |-> NoId, has_text |-> TRUE, quantity |-> 1,
     pricing_mode |-> "LARGE_FORMAT", paper |-> NoId, material |-> Pk,
     chosen_width_mm |-> 700, chosen_height_mm |-> 700,
     sides |-> "", color_mode |-> "", machine |-> NoId, finishings |-> NoFinishing]

ProductInput ==
    [item_type |-> "PRODUCT", product |-> Pk, has_text |-> FALSE, quantity |-> 3,
     pricing_mode |-> "", paper |-> Pk, material |-> NoId,
     chosen_width_mm |-> NULL, chosen_height_mm |-> NULL,
     sides |-> "", color_mode |-> "", machine |-> NoId, finishings |-> NoFinishing]

NoProductInput == [ProductInput EXCEPT !.product = NoId]

ItemInputs == {SheetInput, LargeFormatInput, NoProductInput}

\* ------------------------------------------------------------------------
\* Helpers over the rows
\* ------------------------------------------------------------------------
ItemsOf(its, q) == {i \in DOMAIN its : its[i].quote = q}

RECURSIVE SumLineTotals(_, _)
\* Sum of the persisted line totals (cents) of the items ids; NULL counts 0.
SumLineTotals(its, ids) ==
    IF ids = {} THEN 0
    ELSE LET i == CHOOSE x \in ids : TRUE
         IN  (IF its[i].line_total = NULL THEN 0 ELSE its[i].line_total)
             + SumLineTotals(its, ids \ {i})

Respond(op, code) == resp' = [op |-> op, code |-> code]

\* QuoteRequestViewSet.get_queryset: rows the caller created or whose shop
\* the caller owns.
Visible(caller, q) ==
    q \in DOMAIN quotes /\ (quotes[q].created_by = caller \/ ShopOwner = caller)

Remove(f, gone) == [x \in DOMAIN f \ gone |-> f[x]]

\* A QuoteRequest row as the create endpoints make it.  services are its
\* QuoteRequestService rows.
NewDraft(caller) ==
    [created_by |-> caller, status |-> "DRAFT", total |-> NULL, notes |-> 0, services |-> {}]

\* ------------------------------------------------------------------------
\* Quote requests
\* ------------------------------------------------------------------------
\* POST /quote-requests/ (QuoteRequestCreateSerializer.create)
create(caller) ==
    /\ nextQuoteId <= MaxQuotes
    /\ quotes' = (nextQuoteId :> NewDraft(caller)) @@ quotes
    /\ nextQuoteId' = nextQuoteId + 1
    /\ Respond("create", 201)
    /\ UNCHANGED <<items, nextItemId, cfg, cfgChanges, runs, calc>>

\* PUT/PATCH /quote-requests/{id}/
update(caller, q, notes) ==
    /\ IF ~Visible(caller, q) THEN Respond("update", 404) /\ UNCHANGED quotes
       ELSE IF quotes[q].created_by # caller THEN Respond("update", 403) /\ UNCHANGED quotes
       ELSE IF quotes[q].status # "DRAFT" THEN Respond("update", 400) /\ UNCHANGED quotes
       ELSE /\ quotes' = [quotes EXCEPT ![q].notes = notes]
            /\ Respond("update", 200)
    /\ UNCHANGED <<items, nextQuoteId, nextItemId, cfg, cfgChanges, runs, calc>>

\* DELETE /quote-requests/{id}/ (ModelViewSet.destroy, not overridden); the
\* items go with the row (on_delete=CASCADE).
destroy(caller, q) ==
    /\ IF ~Visible(caller, q)
       THEN Respond("destroy", 404) /\ UNCHANGED <<quotes, items>>
       ELSE /\ quotes' = Remove(quotes, {q})
            /\ items' = Remove(items, ItemsOf(items, q))
            /\ Respond("destroy", 204)
    /\ UNCHANGED <<nextQuoteId, nextItemId, cfg, cfgChanges, runs, calc>>

\* submit that also writes a zero line total to the quote's items.
submit_pricing_items(caller, q) ==
    /\ IF ~Visible(caller, q) THEN Respond("submit", 404) /\ UNCHANGED <<quotes, items>>
       ELSE IF quotes[q].created_by # caller
            THEN Respond("submit", 403) /\ UNCHANGED <<quotes, items>>
       ELSE IF quotes[q].status # "DRAFT"
            THEN Respond("submit", 400) /\ UNCHANGED <<quotes, items>>
       ELSE /\ quotes' = [quotes EXCEPT ![q].status = "SUBMITTED"]
            /\ items' = [i \in DOMAIN items |->
                            IF items[i].quote = q THEN [items[i] EXCEPT !.line_total = 0]
                            ELSE items[i]]
            /\ Respond("submit", 200)
    /\ UNCHANGED <<nextQuoteId, nextItemId, cfg, cfgChanges, runs, calc>>

\* POST /quote-requests/{id}/submit/
submit(caller, q) ==
    /\ IF ~Visible(caller, q) THEN Respond("submit", 404) /\ UNCHANGED quotes
       ELSE IF quotes[q].created_by # caller THEN Respond("submit", 403) /\ UNCHANGED quotes
       ELSE IF quotes[q].status # "DRAFT" THEN Respond("submit", 400) /\ UNCHANGED quotes
       ELSE /\ quotes' = [quotes EXCEPT ![q].status = "SUBMITTED"]
            /\ Respond("submit", 200)
    /\ UNCHANGED <<items, nextQuoteId, nextItemId, cfg, cfgChanges, runs, calc>>

\* POST /quote-drafts/{id}/request-quote/
request_quote(caller, q) ==
    /\ IF q \notin DOMAIN quotes THEN Respond("request_quote", 404) /\ UNCHANGED quotes
       ELSE IF quotes[q].created_by # caller
            THEN Respond("request_quote", 403) /\ UNCHANGED quotes
       ELSE IF quotes[q].status # "DRAFT"
            THEN Respond("request_quote", 400) /\ UNCHANGED quotes
       ELSE /\ quotes' = [quotes EXCEPT ![q].status = "SUBMITTED"]
            /\ Respond("request_quote", 200)
    /\ UNCHANGED <<items, nextQuoteId, nextItemId, cfg, cfgChanges, runs, calc>>

\* send without its check of the status.
send_any_status(caller, q) ==
    /\ IF ~Visible(caller, q) THEN Respond("send", 404) /\ UNCHANGED quotes
       ELSE IF ShopOwner # caller THEN Respond("send", 403) /\ UNCHANGED quotes
       ELSE /\ quotes' = [quotes EXCEPT ![q].status = "SENT"]
            /\ Respond("send", 200)
    /\ UNCHANGED <<items, nextQuoteId, nextItemId, cfg, cfgChanges, runs, calc>>

\* POST /quote-requests/{id}/send/
send(caller, q) ==
    /\ IF ~Visible(caller, q) THEN Respond("send", 404) /\ UNCHANGED quotes
       ELSE IF ShopOwner # caller THEN Respond("send", 403) /\ UNCHANGED quotes
       ELSE IF quotes[q].status # "PRICED" THEN Respond("send", 400) /\ UNCHANGED quotes
       ELSE /\ quotes' = [quotes EXCEPT ![q].status = "SENT"]
            /\ Respond("send", 200)
    /\ UNCHANGED <<items, nextQuoteId, nextItemId, cfg, cfgChanges, runs, calc>>

\* GET /quote-drafts/active/?shop=<slug>: the caller's newest draft, the
\* older drafts marked REJECTED; a new draft when the caller has none.
active(caller) ==
    LET drafts == {q \in DOMAIN quotes :
                      quotes[q].created_by = caller /\ quotes[q].status = "DRAFT"}
    IN  /\ IF drafts = {}
           THEN /\ nextQuoteId <= MaxQuotes
                /\ quotes' = (nextQuoteId :> NewDraft(caller)) @@ quotes
                /\ nextQuoteId' = nextQuoteId + 1
           ELSE LET draft == CHOOSE d \in drafts : \A o \in drafts : o <= d
                IN  /\ quotes' = [q \in DOMAIN quotes |->
                                     IF q \in drafts \ {draft}
                                     THEN [quotes[q] EXCEPT !.status = "REJECTED"]
                                     ELSE quotes[q]]
                    /\ UNCHANGED nextQuoteId
        /\ Respond("active", 200)
        /\ UNCHANGED <<items, nextItemId, cfg, cfgChanges, runs, calc>>

\* ------------------------------------------------------------------------
\* Quote items
\* ------------------------------------------------------------------------
\* check_buyer_and_draft without its check of the status.
check_buyer_only(caller, q) ==
    IF quotes[q].created_by # caller THEN 403 ELSE 0

\* QuoteRequestItemViewSet.check_buyer_and_draft (QuoteDraftItemViewSet has
\* the same code): the response code of the rejection, 0 when the check passes.
check_buyer_and_draft(caller, q) ==
    IF quotes[q].created_by # caller THEN 403
    ELSE IF quotes[q].status # "DRAFT" THEN 400
    ELSE 0

\* The primary key, in each table, of a row that belongs to another shop;
\* the rows of the quote's shop have the keys of cfg.
OtherShopPk == 3

\* The shop of the quote requests.
ShopId == 1

\* obj.shop.id of the row with primary key pk.
shop_of(pk) == IF pk = OtherShopPk THEN 2 ELSE ShopId

\* The primary keys of a request body name existing rows.
RefsExist(inp) ==
    /\ inp.product \in {NoId, OtherShopPk} \/ cfg.product.exists
    /\ inp.paper \in {NoId, OtherShopPk} \/ cfg.paper.exists
    /\ inp.material \in {NoId, OtherShopPk} \/ cfg.material.exists
    /\ inp.machine \in {NoId, OtherShopPk} \/ cfg.machine.exists
    /\ \A f \in inp.finishings :
          f.finishing_rate = OtherShopPk \/ cfg.finishing[f.finishing_rate].exists

\* validate_shop_consistency: TRUE when no ValidationError is raised.
validate_shop_consistency(shop, product, paper, material, machine, finishing_rate) ==
    \A obj \in {product, paper, material, machine, finishing_rate} :
       obj = NoId \/ shop_of(obj) = shop

\* QuoteItemFinishingWriteSerializer.validate_finishing_rate; quote_item is
\* the context's "quote_item", NoId when the context has none.
validate_finishing_rate(quote_item, value) ==
    (quote_item # NoId /\ value # NoId)
    => validate_shop_consistency(ShopId, NoId, NoId, NoId, NoId, value)

\* QuoteItemWriteSerializer.validate; old_product is the product of the
\* instance being updated, NoId on create.
validate(inp, old_product) ==
    /\ RefsExist(inp)
    /\ inp.item_type = "PRODUCT" => (inp.product # NoId \/ old_product # NoId)
    /\ inp.item_type = "CUSTOM" => inp.has_text
    /\ validate_shop_consistency(ShopId, inp.product, inp.paper, inp.material, inp.machine, NoId)

\* is_valid() of the write serializer: the field validators of the nested
\* finishings, then validate.  quote_item is NoId on create.
is_valid(inp, quote_item, old_product) ==
    /\ \A f \in inp.finishings : validate_finishing_rate(quote_item, f.finishing_rate)
    /\ validate(inp, old_product)

ItemFields(inp) ==
    [item_type |-> inp.item_type, product |-> inp.product, has_text |-> inp.has_text,
     quantity |-> inp.quantity, pricing_mode |-> inp.pricing_mode, paper |-> inp.paper,
     material |-> inp.material, chosen_width_mm |-> inp.chosen_width_mm,
     chosen_height_mm |-> inp.chosen_height_mm, sides |-> inp.sides,
     color_mode |-> inp.color_mode, machine |-> inp.machine, finishings |-> inp.finishings]

\* QuoteItemWriteSerializer.create: the default pricing mode, then the row.
NewItem(q, inp) ==
    LET mode == IF inp.pricing_mode # "" THEN inp.pricing_mode
                ELSE IF inp.item_type = "PRODUCT" /\ inp.product # NoId
                     THEN (IF cfg.product.pricing_mode # "" THEN cfg.product.pricing_mode
                           ELSE "SHEET")
                ELSE IF inp.item_type = "CUSTOM"
                     THEN (IF inp.material # NoId THEN "LARGE_FORMAT" ELSE "SHEET")
                ELSE ""
    IN  [ItemFields(inp) EXCEPT !.pricing_mode = mode]
        @@ [quote |-> q, services |-> {}, unit_price |-> NULL, line_total |-> NULL,
            pricing_locked_at |-> NULL]

\* QuoteItemWriteSerializer.update: every field of the body is set, the
\* finishings are replaced.
UpdatedItem(item, inp) ==
    ItemFields(inp)
    @@ [quote |-> item.quote, services |-> item.services, unit_price |-> item.unit_price,
        line_total |-> item.line_total, pricing_locked_at |-> item.pricing_locked_at]

\* POST /quote-requests/{id}/items/ and /quote-drafts/{id}/items/
item_create(caller, q, inp) ==
    /\ IF q \notin DOMAIN quotes
       THEN Respond("item_create", 404) /\ UNCHANGED <<items, nextItemId>>
       ELSE IF check_buyer_and_draft(caller, q) # 0
       THEN Respond("item_create", check_buyer_and_draft(caller, q))
            /\ UNCHANGED <<items, nextItemId>>
       ELSE IF ~is_valid(inp, NoId, NoId)
       THEN Respond("item_create", 400) /\ UNCHANGED <<items, nextItemId>>
       ELSE /\ nextItemId <= MaxItems
            /\ items' = (nextItemId :> NewItem(q, inp)) @@ items
            /\ nextItemId' = nextItemId + 1
            /\ Respond("item_create", 201)
    /\ UNCHANGED <<quotes, nextQuoteId, cfg, cfgChanges, runs, calc>>

\* PUT/PATCH /quote-requests/{id}/items/{item_id}/
item_update(caller, q, i, inp) ==
    /\ IF q \notin DOMAIN quotes
       THEN Respond("item_update", 404) /\ UNCHANGED items
       ELSE IF check_buyer_and_draft(caller, q) # 0
       THEN Respond("item_update", check_buyer_and_draft(caller, q)) /\ UNCHANGED items
       ELSE IF i \notin ItemsOf(items, q)
       THEN Respond("item_update", 404) /\ UNCHANGED items
       ELSE IF ~is_valid(inp, i, items[i].product)
       THEN Respond("item_update", 400) /\ UNCHANGED items
       ELSE /\ items' = [items EXCEPT ![i] = UpdatedItem(items[i], inp)]
            /\ Respond("item_update", 200)
    /\ UNCHANGED <<quotes, nextQuoteId, nextItemId, cfg, cfgChanges, runs, calc>>

\* DELETE /quote-requests/{id}/items/{item_id}/
item_destroy(caller, q, i) ==
    /\ IF q \notin DOMAIN quotes
       THEN Respond("item_destroy", 404) /\ UNCHANGED items
       ELSE IF check_buyer_and_draft(caller, q) # 0
       THEN Respond("item_destroy", check_buyer_and_draft(caller, q)) /\ UNCHANGED items
       ELSE IF i \notin ItemsOf(items, q)
       THEN Respond("item_destroy", 404) /\ UNCHANGED items
       ELSE /\ items' = Remove(items, {i})
            /\ Respond("item_destroy", 204)
    /\ UNCHANGED <<quotes, nextQuoteId, nextItemId, cfg, cfgChanges, runs, calc>>

\* ------------------------------------------------------------------------
\* Locking prices
\* ------------------------------------------------------------------------
\* The value of timezone.now() that a lock writes to pricing_locked_at.
LockedAt == 1

\* The loop body of recalculate_and_lock_quote_request and of
\* calculate_quote_request(lock=True): the forced calculation, the three
\* assignments and item.save(), which quantizes the amounts to cents.
LockItem(c, item) ==
    LET r == calculate_quote_item(c, item, TRUE)
    IN  [item EXCEPT !.unit_price = Quantize2(r.unit_num, r.unit_den),
                     !.line_total = Quantize2(r.line_total, 1),
                     !.pricing_locked_at = LockedAt]

RECURSIVE SumCalculated(_, _, _, _)
\* The running total of a calculation loop over the items ids: the sum of
\* the line totals as calculated (micro-cents).
SumCalculated(c, its, ids, force) ==
    IF ids = {} THEN 0
    ELSE LET i == CHOOSE x \in ids : TRUE
         IN  calculate_quote_item(c, its[i], force).line_total
             + SumCalculated(c, its, ids \ {i}, force)

\* recalculate_and_lock_quote_request(quote_request), run to its end.
recalculate_and_lock_quote_request(q) ==
    /\ items' = [i \in DOMAIN items |->
                    IF items[i].quote = q THEN LockItem(cfg, items[i]) ELSE items[i]]
    /\ quotes' = [quotes EXCEPT
                    ![q].total = Quantize2(SumCalculated(cfg, items, ItemsOf(items, q), TRUE), 1),
                    ![q].status = "PRICED"]

\* price that also accepts a quote that is already PRICED.
price_accepting_priced(caller, q) ==
    /\ IF ~Visible(caller, q) THEN Respond("price", 404) /\ UNCHANGED <<quotes, items>>
       ELSE IF ShopOwner # caller THEN Respond("price", 403) /\ UNCHANGED <<quotes, items>>
       ELSE IF quotes[q].status \notin {"SUBMITTED", "PRICED"}
            THEN Respond("price", 400) /\ UNCHANGED <<quotes, items>>
       ELSE /\ recalculate_and_lock_quote_request(q)
            /\ Respond("price", 200)
    /\ UNCHANGED <<nextQuoteId, nextItemId, cfg, cfgChanges, runs, calc>>

\* POST /quote-requests/{id}/price/
price(caller, q) ==
    /\ IF ~Visible(caller, q) THEN Respond("price", 404) /\ UNCHANGED <<quotes, items>>
       ELSE IF ShopOwner # caller THEN Respond("price", 403) /\ UNCHANGED <<quotes, items>>
       ELSE IF quotes[q].status # "SUBMITTED"
            THEN Respond("price", 400) /\ UNCHANGED <<quotes, items>>
       ELSE /\ recalculate_and_lock_quote_request(q)
            /\ Respond("price", 200)
    /\ UNCHANGED <<nextQuoteId, nextItemId, cfg, cfgChanges, runs, calc>>

\* ------------------------------------------------------------------------
\* The Price request step by step.  Nothing wraps the request in a
\* transaction, so every save() commits on its own and other requests run
\* between the steps.
\* ------------------------------------------------------------------------
Idle == [st |-> "idle"]

RECURSIVE Snapshot(_, _)
\* quote_request.items.all(): the rows as the query returns them, in pk order
\* (QuoteItem.Meta.ordering).
Snapshot(its, ids) ==
    IF ids = {} THEN <<>>
    ELSE LET i == CHOOSE x \in ids : \A y \in ids : x <= y
         IN  <<[id |-> i, row |-> its[i]]>> \o Snapshot(its, ids \ {i})

\* A foreign key of the fetched row names a row that is gone: reading the
\* related object raises DoesNotExist, and save() violates the constraint.
StaleRefs(c, row) ==
    \/ row.product # NoId /\ ~c.product.exists
    \/ row.paper # NoId /\ ~c.paper.exists
    \/ row.material # NoId /\ ~c.material.exists
    \/ row.machine # NoId /\ ~c.machine.exists

\* The response of a request that ended in an unhandled exception.
Abort(r) ==
    /\ runs' = [runs EXCEPT ![r] = Idle]
    /\ Respond("price", 500)

\* price_begin without its check of the status.
price_begin_any_status(caller, q) ==
    /\ IF ~Visible(caller, q) THEN Respond("price", 404) /\ UNCHANGED runs
       ELSE IF ShopOwner # caller THEN Respond("price", 403) /\ UNCHANGED runs
       ELSE /\ \E r \in DOMAIN runs :
                 /\ runs[r] = Idle
                 /\ \A o \in DOMAIN runs : o < r => runs[o] # Idle
                 /\ runs' = [runs EXCEPT ![r] =
                               [st |-> "loop", q |-> q,
                                todo |-> Snapshot(items, ItemsOf(items, q)), total |-> 0]]
            /\ Respond("price_begin", 0)
    /\ UNCHANGED <<quotes, items, nextQuoteId, nextItemId, cfg, cfgChanges, calc>>

\* price: get_object(), the two checks, and the items query of the loop.
price_begin(caller, q) ==
    /\ IF ~Visible(caller, q) THEN Respond("price", 404) /\ UNCHANGED runs
       ELSE IF ShopOwner # caller THEN Respond("price", 403) /\ UNCHANGED runs
       ELSE IF quotes[q].status # "SUBMITTED" THEN Respond("price", 400) /\ UNCHANGED runs
       ELSE /\ \E r \in DOMAIN runs :
                 /\ runs[r] = Idle
                 /\ \A o \in DOMAIN runs : o < r => runs[o] # Idle
                 /\ runs' = [runs EXCEPT ![r] =
                               [st |-> "loop", q |-> q,
                                todo |-> Snapshot(items, ItemsOf(items, q)), total |-> 0]]
            /\ Respond("price_begin", 0)
    /\ UNCHANGED <<quotes, items, nextQuoteId, nextItemId, cfg, cfgChanges, calc>>

\* One pass of the loop of recalculate_and_lock_quote_request: the forced
\* calculation of the fetched row (its finishings and services are read now),
\* item.save(), total += line_total.
price_item(r) ==
    /\ runs[r].st = "loop" /\ runs[r].todo # <<>>
    /\ LET i == Head(runs[r].todo).id
           fetched == Head(runs[r].todo).row
           item == IF i \in DOMAIN items
                   THEN [fetched EXCEPT !.finishings = items[i].finishings,
                                        !.services = items[i].services]
                   ELSE [fetched EXCEPT !.finishings = {}, !.services = {}]
       IN  IF StaleRefs(cfg, fetched) \/ i \notin DOMAIN items
           THEN Abort(r) /\ UNCHANGED items
           ELSE /\ items' = [items EXCEPT ![i] = LockItem(cfg, item)]
                /\ runs' = [runs EXCEPT
                              ![r].todo = Tail(@),
                              ![r].total = @ + calculate_quote_item(cfg, item, TRUE).line_total]
                /\ Respond("price_item", 0)
    /\ UNCHANGED <<quotes, nextQuoteId, nextItemId, cfg, cfgChanges, calc>>

\* After the loop: the total and the status are saved (update_fields), which
\* raises when the row is gone.
price_finish(r) ==
    /\ runs[r].st = "loop" /\ runs[r].todo = <<>>
    /\ IF runs[r].q \notin DOMAIN quotes
       THEN Abort(r) /\ UNCHANGED quotes
       ELSE /\ quotes' = [quotes EXCEPT ![runs[r].q].total = Quantize2(runs[r].total, 1),
                                        ![runs[r].q].status = "PRICED"]
            /\ runs' = [runs EXCEPT ![r] = Idle]
            /\ Respond("price", 200)
    /\ UNCHANGED <<items, nextQuoteId, nextItemId, cfg, cfgChanges, calc>>

\* The request stops between two steps (the worker is killed, the database
\* connection drops, a save() raises): what is committed stays.
price_fail(r) ==
    /\ runs[r].st = "loop"
    /\ Abort(r)
    /\ UNCHANGED <<quotes, items, nextQuoteId, nextItemId, cfg, cfgChanges, calc>>

\* ------------------------------------------------------------------------
\* Direct calls of the pricing functions
\* ------------------------------------------------------------------------
\* calculate_quote_item(item, force) called on the row i; nothing is saved.
call_calculate_quote_item(i, force) ==
    /\ i \in DOMAIN items
    /\ calc' = [fn |-> "calculate_quote_item", item |-> i, force |-> force,
                result |-> calculate_quote_item(cfg, items[i], force)]
    /\ UNCHANGED <<quotes, items, nextQuoteId, nextItemId, cfg, cfgChanges, resp, runs>>

\* calculate_quote_request(quote_request, lock), run to its end.
calculate_quote_request(q, lock) ==
    /\ q \in DOMAIN quotes
    /\ LET ids == ItemsOf(items, q)
           grand_total == SumCalculated(cfg, items, ids, lock)
                          + ServiceCosts(cfg, quotes[q].services)
       IN  /\ IF lock
              THEN /\ items' = [i \in DOMAIN items |->
                                  IF i \in ids THEN LockItem(cfg, items[i]) ELSE items[i]]
                   /\ quotes' = [quotes EXCEPT ![q].total = Quantize2(grand_total, 1),
                                               ![q].status = "PRICED"]
              ELSE UNCHANGED <<quotes, items>>
           /\ calc' = [fn |-> "calculate_quote_request", q |-> q, lock |-> lock,
                       total |-> grand_total]
    /\ UNCHANGED <<nextQuoteId, nextItemId, cfg, cfgChanges, resp, runs>>

\* ------------------------------------------------------------------------
\* Preview
\* ------------------------------------------------------------------------
RECURSIVE PreviewTotal_any_sign(_, _, _)
\* PreviewTotal that adds every line total, positive or not.
PreviewTotal_any_sign(c, its, ids) ==
    IF ids = {} THEN 0
    ELSE LET i == CHOOSE x \in ids : TRUE
         IN  calculate_quote_item(c, its[i], FALSE).line_total + PreviewTotal_any_sign(c, its, ids \ {i})

RECURSIVE PreviewTotal(_, _, _)
\* The running total of build_preview_price_response over the items ids that
\* have no missing field: the line totals that are positive (micro-cents).
PreviewTotal(c, its, ids) ==
    IF ids = {} THEN 0
    ELSE LET i == CHOOSE x \in ids : TRUE
             line_total == calculate_quote_item(c, its[i], FALSE).line_total
         IN  (IF line_total > 0 THEN line_total ELSE 0) + PreviewTotal(c, its, ids \ {i})

RECURSIVE PreviewSuggestions(_, _, _)
\* The suggestions of the items ids one after the other, in pk order.
PreviewSuggestions(c, its, ids) ==
    IF ids = {} THEN <<>>
    ELSE LET i == CHOOSE x \in ids : \A y \in ids : x <= y
         IN  build_item_diagnostics(c, its[i], missing_fields_for_item(c, its[i])).suggestions
             \o PreviewSuggestions(c, its, ids \ {i})

\* build_preview_price_response(quote_request); total is in micro-cents.  Of
\* the lines only the head line of each item is kept, as the pair of the item
\* and what the line shows; the breakdown lines under it are left out.
build_preview_price_response(c, its, q) ==
    LET ids == ItemsOf(its, q)
        needs_review_items == {i \in ids : get_quote_item_missing_fields(c, its[i]) # <<>>}
        priced == ids \ needs_review_items
    IN  [total |-> PreviewTotal(c, its, priced),
         lines |-> {<<i, "Needs review">> : i \in needs_review_items}
                   \cup {<<i, "amount">> :
                            i \in {j \in priced :
                                     calculate_quote_item(c, its[j], FALSE).line_total > 0}},
         can_calculate |-> needs_review_items = {},
         needs_review_items |-> needs_review_items,
         missing_fields |->
             UNION {Elems(missing_fields_for_item(c, its[i])) : i \in needs_review_items},
         items_missing_fields |->
             [i \in needs_review_items |-> missing_fields_for_item(c, its[i])],
         item_diagnostics |->
             [i \in needs_review_items |->
                 build_item_diagnostics(c, its[i], missing_fields_for_item(c, its[i]))],
         suggestions |-> UniqueByCode(PreviewSuggestions(c, its, needs_review_items), <<>>),
         hasNegotiable |->
             \E i \in priced : \E qis \in its[i].services :
                /\ qis.is_selected /\ qis.price_override = NULL
                /\ c.service[qis.service_rate].pricing_type # "FIXED"]

\* preview_price that saves what it calculated to the items.
preview_price_saving(caller, q) ==
    /\ IF q \notin DOMAIN quotes
       THEN Respond("preview_price", 404) /\ UNCHANGED <<calc, items>>
       ELSE IF quotes[q].created_by # caller
       THEN Respond("preview_price", 403) /\ UNCHANGED <<calc, items>>
       ELSE IF quotes[q].status # "DRAFT"
       THEN Respond("preview_price", 400) /\ UNCHANGED <<calc, items>>
       ELSE /\ calc' = [fn |-> "build_preview_price_response", q |-> q,
                        result |-> build_preview_price_response(cfg, items, q)]
            /\ items' = [i \in DOMAIN items |->
                            IF items[i].quote = q
                            THEN [items[i] EXCEPT !.line_total =
                                     Quantize2(calculate_quote_item(cfg, items[i], FALSE).line_total, 1)]
                            ELSE items[i]]
            /\ Respond("preview_price", 200)
    /\ UNCHANGED <<quotes, nextQuoteId, nextItemId, cfg, cfgChanges, runs>>

\* POST /quote-drafts/{id}/preview-price/
preview_price(caller, q) ==
    /\ IF q \notin DOMAIN quotes THEN Respond("preview_price", 404) /\ UNCHANGED calc
       ELSE IF quotes[q].created_by # caller
       THEN Respond("preview_price", 403) /\ UNCHANGED calc
       ELSE IF quotes[q].status # "DRAFT"
       THEN Respond("preview_price", 400) /\ UNCHANGED calc
       ELSE /\ calc' = [fn |-> "build_preview_price_response", q |-> q,
                        result |-> build_preview_price_response(cfg, items, q)]
            /\ Respond("preview_price", 200)
    /\ UNCHANGED <<quotes, items, nextQuoteId, nextItemId, cfg, cfgChanges, runs>>

\* get_quote_item_missing_fields(item) called on the row i.
call_get_quote_item_missing_fields(i) ==
    /\ i \in DOMAIN items
    /\ calc' = [fn |-> "get_quote_item_missing_fields", item |-> i,
                result |-> get_quote_item_missing_fields(cfg, items[i])]
    /\ UNCHANGED <<quotes, items, nextQuoteId, nextItemId, cfg, cfgChanges, resp, runs>>

\* ------------------------------------------------------------------------
\* Shop configuration changes (the shop owner's CRUD endpoints)
\* ------------------------------------------------------------------------
CfgStep(op) ==
    /\ cfgChanges < MaxCfgChanges
    /\ cfgChanges' = cfgChanges + 1
    /\ Respond(op, 200)
    /\ UNCHANGED <<quotes, nextQuoteId, nextItemId, runs, calc>>

\* PATCH /shops/{id}/papers/{id}/ with a new selling price
paper_update(v) ==
    /\ cfg.paper.exists /\ v # cfg.paper.selling_price
    /\ cfg' = [cfg EXCEPT !.paper.selling_price = v]
    /\ UNCHANGED items
    /\ CfgStep("paper_update")

\* paper_destroy with QuoteItem.paper on_delete=CASCADE.
paper_destroy_cascade ==
    /\ cfg.paper.exists
    /\ cfg' = [cfg EXCEPT !.paper.exists = FALSE]
    /\ items' = Remove(items, {i \in DOMAIN items : items[i].paper # NoId})
    /\ CfgStep("paper_destroy")

\* DELETE /shops/{id}/papers/{id}/: QuoteItem.paper is on_delete=SET_NULL
paper_destroy ==
    /\ cfg.paper.exists
    /\ cfg' = [cfg EXCEPT !.paper.exists = FALSE]
    /\ items' = [i \in DOMAIN items |-> [items[i] EXCEPT !.paper = NoId]]
    /\ CfgStep("paper_destroy")

\* PATCH /shops/{id}/materials/{id}/ with a new selling price
material_update(v) ==
    /\ cfg.material.exists /\ v # cfg.material.selling_price
    /\ cfg' = [cfg EXCEPT !.material.selling_price = v]
    /\ UNCHANGED items
    /\ CfgStep("material_update")

\* DELETE /shops/{id}/materials/{id}/: QuoteItem.material is SET_NULL
material_destroy ==
    /\ cfg.material.exists
    /\ cfg' = [cfg EXCEPT !.material.exists = FALSE]
    /\ items' = [i \in DOMAIN items |-> [items[i] EXCEPT !.material = NoId]]
    /\ CfgStep("material_destroy")

\* PATCH /machines/{id}/printing-rates/{id}/ with new prices
rate_update(v) ==
    /\ cfg.rate.exists /\ v # cfg.rate.single_price
    /\ cfg' = [cfg EXCEPT !.rate.single_price = v, !.rate.double_price = v + 10]
    /\ UNCHANGED items
    /\ CfgStep("rate_update")

\* PATCH /machines/{id}/printing-rates/{id}/ with is_active
rate_set_active(b) ==
    /\ cfg.rate.exists /\ b # cfg.rate.is_active
    /\ cfg' = [cfg EXCEPT !.rate.is_active = b]
    /\ UNCHANGED items
    /\ CfgStep("rate_set_active")

\* DELETE /machines/{id}/printing-rates/{id}/
rate_destroy ==
    /\ cfg.rate.exists
    /\ cfg' = [cfg EXCEPT !.rate.exists = FALSE]
    /\ UNCHANGED items
    /\ CfgStep("rate_destroy")

\* PATCH /shops/{id}/finishing-rates/{id}/ with a new price
finishing_update(f, v) ==
    /\ cfg.finishing[f].exists /\ v # cfg.finishing[f].price
    /\ cfg' = [cfg EXCEPT !.finishing[f].price = v]
    /\ UNCHANGED items
    /\ CfgStep("finishing_update")

\* DELETE /shops/{id}/finishing-rates/{id}/: QuoteItemFinishing rows are
\* on_delete=CASCADE
finishing_destroy(f) ==
    /\ cfg.finishing[f].exists
    /\ cfg' = [cfg EXCEPT !.finishing[f].exists = FALSE]
    /\ items' = [i \in DOMAIN items |->
                    [items[i] EXCEPT !.finishings = {x \in @ : x.finishing_rate # f}]]
    /\ CfgStep("finishing_destroy")

\* DELETE /shops/{id}/machines/{id}/: QuoteItem.machine is SET_NULL, the
\* machine's printing rates are CASCADE
machine_destroy ==
    /\ cfg.machine.exists
    /\ cfg' = [cfg EXCEPT !.machine.exists = FALSE, !.rate.exists = FALSE]
    /\ items' = [i \in DOMAIN items |-> [items[i] EXCEPT !.machine = NoId]]
    /\ CfgStep("machine_destroy")

ConfigChange ==
    \/ \E v \in PaperPrices : paper_update(v)
    \/ paper_destroy
    \/ \E v \in MaterialPrices : material_update(v)
    \/ material_destroy
    \/ \E v \in RatePrices : rate_update(v)
    \/ \E b \in BOOLEAN : rate_set_active(b)
    \/ rate_destroy
    \/ \E f \in DOMAIN cfg.finishing, v \in FinishingPrices : finishing_update(f, v)
    \/ \E f \in DOMAIN cfg.finishing : finishing_destroy(f)
    \/ machine_destroy

\* ------------------------------------------------------------------------
\* The sequential specification: every request runs to its end before the
\* next one starts.
\* ------------------------------------------------------------------------
QuoteIds == 1..MaxQuotes
ItemIds == 1..MaxItems

NoCall == [fn |-> "none"]

Init ==
    /\ quotes = <<>>
    /\ items = <<>>
    /\ nextQuoteId = 1
    /\ nextItemId = 1
    /\ cfg = InitCfg
    /\ cfgChanges = 0
    /\ resp = [op |-> "none", code |-> 0]
    /\ runs = <<>>
    /\ calc = NoCall

Next ==
    \/ \E c \in Creators : create(c)
    \/ \E c \in Users, q \in QuoteIds, n \in {0, 1} : update(c, q, n)
    \/ \E c \in Users, q \in QuoteIds : destroy(c, q)
    \/ \E c \in Users, q \in QuoteIds : submit(c, q)
    \/ \E c \in Users, q \in QuoteIds : request_quote(c, q)
    \/ \E c \in Users, q \in QuoteIds : price(c, q)
    \/ \E c \in Users, q \in QuoteIds : send(c, q)
    \/ \E c \in Creators : active(c)
    \/ \E c \in Users, q \in QuoteIds, inp \in ItemInputs : item_create(c, q, inp)
    \/ \E c \in Users, q \in QuoteIds, i \in ItemIds, inp \in ItemInputs : item_update(c, q, i, inp)
    \/ \E c \in Users, q \in QuoteIds, i \in ItemIds : item_destroy(c, q, i)

Spec == Init /\ [][Next]_vars

\* ------------------------------------------------------------------------
\* The interleaved specification: Price requests advance step by step while
\* the buyer's and the shop owner's other requests run in between.
\* ------------------------------------------------------------------------
RunIds == 1..MaxRuns

InitLock ==
    /\ quotes = <<>>
    /\ items = <<>>
    /\ nextQuoteId = 1
    /\ nextItemId = 1
    /\ cfg = InitCfg
    /\ cfgChanges = 0
    /\ resp = [op |-> "none", code |-> 0]
    /\ runs = [r \in RunIds |-> Idle]
    /\ calc = NoCall

NextLock ==
    \/ \E c \in Creators : nextQuoteId <= MaxLockQuotes /\ create(c)
    \/ \E c \in Creators, q \in QuoteIds : submit(c, q)
    \/ \E c \in Creators, q \in QuoteIds, inp \in ItemInputs : item_create(c, q, inp)
    \/ \E c \in Creators, q \in QuoteIds, i \in ItemIds, inp \in ItemInputs :
          item_update(c, q, i, inp)
    \/ \E c \in Creators, q \in QuoteIds, i \in ItemIds : item_destroy(c, q, i)
    \/ \E c \in Users, q \in QuoteIds : destroy(c, q)
    \/ \E q \in QuoteIds : price_begin(ShopOwner, q)
    \/ \E r \in RunIds : price_item(r)
    \/ \E r \in RunIds : price_finish(r)
    \/ \E r \in RunIds : price_fail(r)
    \/ \E q \in QuoteIds : send(ShopOwner, q)
    \/ ConfigChange

SpecLock == InitLock /\ [][NextLock]_vars

\* ------------------------------------------------------------------------
\* The pricing functions called directly on rows drawn from bounded sets.
\* ------------------------------------------------------------------------
\* Stored (unit_price, line_total, pricing_locked_at) of a row.
StoredStates ==
    {[unit_price |-> NULL, line_total |-> NULL, pricing_locked_at |-> NULL],
     [unit_price |-> 7, line_total |-> 14, pricing_locked_at |-> LockedAt],
     [unit_price |-> NULL, line_total |-> NULL, pricing_locked_at |-> LockedAt]}

CalcInputs == {SheetInput, LargeFormatInput}

CalcRows ==
    {[NewItem(1, inp) EXCEPT !.unit_price = st.unit_price, !.line_total = st.line_total,
                             !.pricing_locked_at = st.pricing_locked_at] :
        inp \in CalcInputs, st \in StoredStates}

\* QuoteRequestService rows of a quote: at most one per service rate.
FixedServiceRows ==
    {{}, {[service_rate |-> 1, is_selected |-> TRUE, price_override |-> NULL, distance_km |-> NULL]},
         {[service_rate |-> 1, is_selected |-> FALSE, price_override |-> NULL, distance_km |-> NULL]}}

TieredServiceRows ==
    {{}, {[service_rate |-> 2, is_selected |-> TRUE, price_override |-> NULL, distance_km |-> NULL]},
         {[service_rate |-> 2, is_selected |-> TRUE, price_override |-> NULL, distance_km |-> 3]}}

InitCalc ==
    /\ cfg = InitCfg
    /\ \E a \in FixedServiceRows, b \in TieredServiceRows :
          quotes = (1 :> [NewDraft("buyer") EXCEPT !.status = "SUBMITTED", !.services = a \cup b])
    /\ \E x, y \in CalcRows : items = (1 :> x) @@ (2 :> y)
    /\ nextQuoteId = 2
    /\ nextItemId = 3
    /\ cfgChanges = 0
    /\ resp = [op |-> "none", code |-> 0]
    /\ runs = <<>>
    /\ calc = NoCall

NextCalc ==
    \/ \E i \in ItemIds, force \in BOOLEAN : call_calculate_quote_item(i, force)
    \/ \E q \in QuoteIds, lock \in BOOLEAN : calculate_quote_request(q, lock)
    \/ ConfigChange

SpecCalc == InitCalc /\ [][NextCalc]_vars

\* ------------------------------------------------------------------------
\* The pricing function, the missing-fields detector and the preview called
\* on the items of one draft, the items drawn from rows that lack one piece
\* of data each.
\* ------------------------------------------------------------------------
NoMachineInput == [SheetInput EXCEPT !.machine = NoId, !.sides = "", !.color_mode = ""]
NoRateInput == [SheetInput EXCEPT !.color_mode = "BW"]
NoTextInput == [SheetInput EXCEPT !.has_text = FALSE]
NoPaperInput == [SheetInput EXCEPT !.paper = NoId]
NoQuantityInput == [SheetInput EXCEPT !.quantity = 0]
NoWidthInput == [LargeFormatInput EXCEPT !.chosen_width_mm = NULL]
NoMaterialInput == [LargeFormatInput EXCEPT !.material = NoId]

ProductSheetInput ==
    [item_type |-> "PRODUCT", product |-> Pk, has_text |-> FALSE, quantity |-> 5,
     pricing_mode |-> "", paper |-> Pk, material |-> NoId,
     chosen_width_mm |-> NULL, chosen_height_mm |-> NULL,
     sides |-> "SIMPLEX", color_mode |-> "COLOR", machine |-> Pk,
     finishings |-> {[finishing_rate |-> 2, price_override |-> NULL, apply_to_sides |-> "BOTH"]}]

FirstRows ==
    {SheetInput, LargeFormatInput, ProductSheetInput, NoMachineInput, NoRateInput, NoTextInput,
     NoPaperInput, NoQuantityInput, NoWidthInput, NoMaterialInput, NoProductInput,
     [LargeFormatInput EXCEPT !.quantity = 2, !.finishings = OneFinishing],
     [LargeFormatInput EXCEPT !.item_type = "PRODUCT", !.has_text = FALSE],
     [SheetInput EXCEPT !.finishings =
         {[finishing_rate |-> 2, price_override |-> -400, apply_to_sides |-> "BOTH"]}]}

SecondRows == {SheetInput, LargeFormatInput, NoRateInput}

\* QuoteItemService rows of an item: at most one.
ItemServiceRows ==
    {{}, {[service_rate |-> 1, is_selected |-> TRUE, price_override |-> NULL]},
         {[service_rate |-> 1, is_selected |-> FALSE, price_override |-> NULL]},
         {[service_rate |-> 2, is_selected |-> TRUE, price_override |-> NULL]}}

\* The paper as Paper.save() leaves it: a standard sheet size with its
\* dimensions filled in, or the CUSTOM size, here without dimensions.
PaperSheets == {<<"SRA3", 320, 450>>, <<"CUSTOM", NULL, NULL>>}

InitItem ==
    /\ \E d \in PaperSheets :
          cfg = [InitCfg EXCEPT !.paper.sheet_size = d[1], !.paper.width_mm = d[2],
                                !.paper.height_mm = d[3]]
    /\ quotes = (1 :> NewDraft("buyer"))
    /\ \/ \E x \in FirstRows, y \in SecondRows, sv \in ItemServiceRows :
             items = (1 :> [NewItem(1, x) EXCEPT !.services = sv]) @@ (2 :> NewItem(1, y))
       \/ items = <<>>
    /\ nextQuoteId = 2
    /\ nextItemId = 3
    /\ cfgChanges = 0
    /\ resp = [op |-> "none", code |-> 0]
    /\ runs = <<>>
    /\ calc = NoCall

NextItem ==
    \/ \E c \in Users, q \in QuoteIds : preview_price(c, q)
    \/ \E i \in ItemIds : call_calculate_quote_item(i, FALSE)
    \/ \E i \in ItemIds : call_get_quote_item_missing_fields(i)
    \/ \E q \in QuoteIds, lock \in BOOLEAN : calculate_quote_request(q, lock)
    \/ ConfigChange

SpecItem == InitItem /\ [][NextItem]_vars

\* ------------------------------------------------------------------------
\* The item endpoints called on one draft with bodies that name rows of the
\* quote's shop and rows of another shop.
\* ------------------------------------------------------------------------
ForeignFinishing ==
    {[finishing_rate |-> OtherShopPk, price_override |-> NULL, apply_to_sides |-> "BOTH"]}

\* Bodies that name one row of another shop each.
ForeignFinishingInput == [SheetInput EXCEPT !.finishings = ForeignFinishing]

ForeignInputs ==
    {[SheetInput EXCEPT !.paper = OtherShopPk], [SheetInput EXCEPT !.machine = OtherShopPk],
     ForeignFinishingInput, [LargeFormatInput EXCEPT !.material = OtherShopPk],
     [ProductInput EXCEPT !.product = OtherShopPk]}

ShopInputs == ItemInputs \cup {ProductInput} \cup ForeignInputs

InitShop ==
    /\ quotes = (1 :> NewDraft("buyer"))
    /\ items = <<>>
    /\ nextQuoteId = 2
    /\ nextItemId = 1
    /\ cfg = InitCfg
    /\ cfgChanges = 0
    /\ resp = [op |-> "none", code |-> 0]
    /\ runs = <<>>
    /\ calc = NoCall

NextShop ==
    \/ \E c \in Users, q \in QuoteIds, inp \in ShopInputs : item_create(c, q, inp)
    \/ \E c \in Users, q \in QuoteIds, i \in ItemIds, inp \in ShopInputs : item_update(c, q, i, inp)
    \/ \E c \in Users, q \in QuoteIds, i \in ItemIds : item_destroy(c, q, i)
    \/ \E c \in Users, q \in QuoteIds : submit(c, q)

SpecShop == InitShop /\ [][NextShop]_vars

\* ------------------------------------------------------------------------
\* The pure functions called directly on arguments drawn from bounded sets.
\* ------------------------------------------------------------------------
\* pieces_per_sheet(w, h, sw, sh, bleed) called; the sizes include
\* non-positive ones, pieces larger than the sheet and the 140 x 170 mm piece
\* on SRA3 of the tests.
call_pieces_per_sheet ==
    /\ \E w, h \in {-6, 0, 90, 140, 170, 500}, sw, sh \in {-1, 0, 100, 320, 450}, b \in {0, 3} :
          calc' = [fn |-> "pieces_per_sheet", args |-> <<w, h, sw, sh, b>>,
                   result |-> pieces_per_sheet(w, h, sw, sh, b)]
    /\ UNCHANGED <<quotes, items, nextQuoteId, nextItemId, cfg, cfgChanges, resp, runs>>

\* sheets_needed(quantity, pieces_per_sheet) called.
call_sheets_needed ==
    /\ \E quantity \in -2..MaxQuantity, pieces \in -1..MaxPieces :
          calc' = [fn |-> "sheets_needed", args |-> <<quantity, pieces>>,
                   result |-> sheets_needed(quantity, pieces)]
    /\ UNCHANGED <<quotes, items, nextQuoteId, nextItemId, cfg, cfgChanges, resp, runs>>

\* The service rates the price functions are called on: a FIXED one, the
\* bands 0-5, 5-15 and 15+ km, and bands that leave 5 to 10 km uncovered.
ServiceRates ==
    {[pricing_type |-> "FIXED", price |-> 50, tiers |-> {}],
     [pricing_type |-> "TIERED_DISTANCE", price |-> NULL,
      tiers |-> {[min_km |-> 0, max_km |-> 5, price |-> 200],
                 [min_km |-> 5, max_km |-> 15, price |-> 350],
                 [min_km |-> 15, max_km |-> NULL, price |-> 500]}],
     [pricing_type |-> "TIERED_DISTANCE", price |-> 60,
      tiers |-> {[min_km |-> 1, max_km |-> 4, price |-> 200],
                 [min_km |-> 10, max_km |-> 20, price |-> 350]}]}

\* _get_service_price(service_rate, price_override, distance_km) called.
call_get_service_price ==
    /\ \E rate \in ServiceRates, price_override \in {NULL, 0, 80},
          distance_km \in {NULL, 0, 3, 5, 7, 10, 15, 25} :
          calc' = [fn |-> "_get_service_price", args |-> <<rate, price_override, distance_km>>,
                   result |-> get_service_price(rate, price_override, distance_km)]
    /\ UNCHANGED <<quotes, items, nextQuoteId, nextItemId, cfg, cfgChanges, resp, runs>>

\* _apply_finishing_cost called on a rate of each charge unit, with and
\* without double-side price, setup fee and override; sheets_needed_val 0 is
\* what a LARGE_FORMAT item passes.
call_apply_finishing_cost ==
    /\ \E unit \in {"PER_PIECE", "PER_SIDE", "PER_SHEET", "PER_SQM", "FLAT"},
          double_side_price \in {NULL, 11}, setup_fee \in {NULL, 5},
          quantity \in {1, 3}, area \in {0, 144000}, sides_cnt \in {1, 2},
          price_override \in {NULL, 4}, apply_to_sides \in {"SINGLE", "DOUBLE", "BOTH"},
          sheets_needed_val \in {0, 2} :
          LET rate == [exists |-> TRUE, charge_unit |-> unit, price |-> 7,
                       double_side_price |-> double_side_price, setup_fee |-> setup_fee]
          IN  calc' = [fn |-> "_apply_finishing_cost",
                       args |-> <<rate, quantity, area, sides_cnt, price_override,
                                  apply_to_sides, sheets_needed_val>>,
                       result |-> apply_finishing_cost(rate, quantity, area, sides_cnt,
                                                       price_override, apply_to_sides,
                                                       sheets_needed_val)]
    /\ UNCHANGED <<quotes, items, nextQuoteId, nextItemId, cfg, cfgChanges, resp, runs>>

\* _get_effective_pricing_mode(item), which calculate_quote_item and
\* get_quote_item_missing_fields call, and _get_item_pricing_mode(item) of
\* the diagnostics called on one item; a product has mode SHEET or
\* LARGE_FORMAT, an item may have none.
call_get_effective_pricing_mode ==
    /\ \E item_type \in {"PRODUCT", "CUSTOM"}, product \in {NoId, Pk},
          pricing_mode \in {"", "SHEET", "LARGE_FORMAT"}, material \in {NoId, Pk},
          product_mode \in {"SHEET", "LARGE_FORMAT"} :
          LET item == [item_type |-> item_type, product |-> product,
                       pricing_mode |-> pricing_mode, material |-> material]
              c == [cfg EXCEPT !.product.pricing_mode = product_mode]
          IN  calc' = [fn |-> "_get_effective_pricing_mode", args |-> <<item, product_mode>>,
                       result |-> [pricing |-> get_effective_pricing_mode(c, item),
                                   diagnostics |-> get_item_pricing_mode(c, item)]]
    /\ UNCHANGED <<quotes, items, nextQuoteId, nextItemId, cfg, cfgChanges, resp, runs>>

NextFn ==
    \/ call_pieces_per_sheet
    \/ call_sheets_needed
    \/ call_get_service_price
    \/ call_apply_finishing_cost
    \/ call_get_effective_pricing_mode

SpecFn == Init /\ [][NextFn]_vars

\* ------------------------------------------------------------------------
\* The active-draft request step by step.  Nothing wraps it in a transaction
\* and no constraint limits the drafts of a user and shop, so other requests
\* run between its query and its writes.
\* ------------------------------------------------------------------------
\* GET /quote-drafts/active/ up to the query: the DRAFT rows of the caller
\* as fetched.
active_begin(caller) ==
    /\ \E r \in DOMAIN runs :
          /\ runs[r] = Idle
          /\ \A o \in DOMAIN runs : o < r => runs[o] # Idle
          /\ runs' = [runs EXCEPT ![r] =
                        [st |-> "active", caller |-> caller,
                         drafts |-> {q \in DOMAIN quotes :
                                        quotes[q].created_by = caller
                                        /\ quotes[q].status = "DRAFT"}]]
    /\ Respond("active_begin", 0)
    /\ UNCHANGED <<quotes, items, nextQuoteId, nextItemId, cfg, cfgChanges, calc>>

\* The rest of the request: create a draft when none was fetched, else keep
\* the newest fetched one and save REJECTED on the older ones; the answer
\* carries the draft.
active_finish(r) ==
    /\ runs[r] # Idle /\ runs[r].st = "active"
    /\ LET caller == runs[r].caller
           drafts == runs[r].drafts
       IN  IF drafts = {}
           THEN /\ nextQuoteId <= MaxDrafts
                /\ quotes' = (nextQuoteId :> NewDraft(caller)) @@ quotes
                /\ nextQuoteId' = nextQuoteId + 1
                /\ calc' = [fn |-> "active", caller |-> caller, draft |-> nextQuoteId]
           ELSE LET draft == CHOOSE d \in drafts : \A o \in drafts : o <= d
                IN  /\ quotes' = [q \in DOMAIN quotes |->
                                     IF q \in drafts \ {draft}
                                     THEN [quotes[q] EXCEPT !.status = "REJECTED"]
                                     ELSE quotes[q]]
                    /\ calc' = [fn |-> "active", caller |-> caller, draft |-> draft]
                    /\ UNCHANGED nextQuoteId
    /\ runs' = [runs EXCEPT ![r] = Idle]
    /\ Respond("active", 200)
    /\ UNCHANGED <<items, nextItemId, cfg, cfgChanges>>

NextActive ==
    \/ \E c \in Users, q \in 1..MaxDrafts : submit(c, q)
    \/ \E c \in Users : active_begin(c)
    \/ \E r \in RunIds : active_finish(r)

SpecActive == InitLock /\ [][NextActive]_vars

\* ------------------------------------------------------------------------
\* Properties of the workflow and of the pricing functions
\* ------------------------------------------------------------------------
StatusRank(st) ==
    CASE st = "DRAFT" -> 0
      [] st = "SUBMITTED" -> 1
      [] st = "PRICED" -> 2
      [] st = "SENT" -> 3
      [] OTHER -> 4

IsCreatorOfDraft(c, q) ==
    q \in DOMAIN quotes /\ quotes[q].created_by = c /\ quotes[q].status = "DRAFT"

\* The step changes the status of quote q from a to b.
StatusStep(q, a, b) ==
    /\ q \in DOMAIN quotes /\ q \in DOMAIN quotes'
    /\ quotes[q].status = a /\ quotes'[q].status = b

\* C1: a quote request's status changes only DRAFT->SUBMITTED by the
\* creator's submit or request-quote, SUBMITTED->PRICED by the shop owner's
\* price, PRICED->SENT by the shop owner's send, and DRAFT->REJECTED when
\* the active-draft endpoint supersedes an older draft; submit succeeds
\* exactly when the caller is the creator and the status is DRAFT, price
\* exactly when the caller owns the shop and the status is SUBMITTED, send
\* exactly when the caller owns the shop and the status is PRICED; the
\* status never returns to an earlier one.
C1_StatusMachine ==
    [][ /\ \A q \in DOMAIN quotes \cap DOMAIN quotes' :
              quotes[q].status # quotes'[q].status
              => /\ StatusRank(quotes'[q].status) > StatusRank(quotes[q].status)
                 /\ \/ /\ StatusStep(q, "DRAFT", "SUBMITTED")
                       /\ \/ submit(quotes[q].created_by, q)
                          \/ request_quote(quotes[q].created_by, q)
                    \/ StatusStep(q, "SUBMITTED", "PRICED") /\ price(ShopOwner, q)
                    \/ StatusStep(q, "PRICED", "SENT") /\ send(ShopOwner, q)
                    \/ /\ StatusStep(q, "DRAFT", "REJECTED")
                       /\ active(quotes[q].created_by)
                       /\ \E n \in DOMAIN quotes :
                             n > q /\ IsCreatorOfDraft(quotes[q].created_by, n)
        /\ resp'.op = "submit" =>
              \A c \in Users, q \in QuoteIds :
                 submit(c, q) => ((resp'.code = 200 /\ StatusStep(q, "DRAFT", "SUBMITTED"))
                                  <=> IsCreatorOfDraft(c, q))
        /\ resp'.op = "request_quote" =>
              \A c \in Users, q \in QuoteIds :
                 request_quote(c, q) => ((resp'.code = 200 /\ StatusStep(q, "DRAFT", "SUBMITTED"))
                                         <=> IsCreatorOfDraft(c, q))
        /\ resp'.op = "price" =>
              \A c \in Users, q \in QuoteIds :
                 price(c, q) => ((resp'.code = 200 /\ StatusStep(q, "SUBMITTED", "PRICED"))
                                 <=> (q \in DOMAIN quotes /\ c = ShopOwner
                                      /\ quotes[q].status = "SUBMITTED"))
        /\ resp'.op = "send" =>
              \A c \in Users, q \in QuoteIds :
                 send(c, q) => ((resp'.code = 200 /\ StatusStep(q, "PRICED", "SENT"))
                                <=> (q \in DOMAIN quotes /\ c = ShopOwner
                                     /\ quotes[q].status = "PRICED"))
      ]_vars

\* A quote has gone DRAFT -> SUBMITTED -> PRICED -> SENT (the last request
\* being the send) while another one was superseded.
C1_Witness ==
    /\ resp = [op |-> "send", code |-> 200]
    /\ \E q \in DOMAIN quotes : quotes[q].status = "SENT"
    /\ \E q \in DOMAIN quotes : quotes[q].status = "REJECTED"

ItemOps == {"item_create", "item_update", "item_destroy"}

\* C2: an item add, edit or remove request succeeds only if the caller is
\* the quote's creator and the quote is DRAFT; in every other case it is
\* rejected and the items are unchanged.
C2_ItemMutationOnlyInDraft ==
    [][ \A c \in Users, q \in QuoteIds :
          ~IsCreatorOfDraft(c, q) =>
             /\ resp'.op = "item_create" =>
                   \A inp \in ItemInputs :
                      item_create(c, q, inp)
                      => resp'.code \in {400, 403, 404} /\ items' = items
             /\ resp'.op = "item_update" =>
                   \A i \in ItemIds, inp \in ItemInputs :
                      item_update(c, q, i, inp)
                      => resp'.code \in {400, 403, 404} /\ items' = items
             /\ resp'.op = "item_destroy" =>
                   \A i \in ItemIds :
                      item_destroy(c, q, i)
                      => resp'.code \in {400, 403, 404} /\ items' = items
      ]_vars

\* An item request was rejected on a quote that has items and is no longer
\* a draft.
C2_Witness ==
    /\ resp.op \in ItemOps
    /\ resp.code = 400
    /\ \E q \in DOMAIN quotes : quotes[q].status = "PRICED" /\ ItemsOf(items, q) # {}

Locked(item) == item.pricing_locked_at # NULL

\* C3: a buyer's edit or remove request on a locked item is rejected and
\* changes no item; no sequence of requests, a Price request that stops
\* part-way included, reaches a state in which an item is locked while its
\* quote is DRAFT.
C3_LockedItemNotEditable ==
    /\ [](\A i \in DOMAIN items :
             Locked(items[i]) => /\ items[i].quote \in DOMAIN quotes
                                 /\ quotes[items[i].quote].status # "DRAFT")
    /\ [][ \A i \in DOMAIN items :
             Locked(items[i]) =>
                \A c \in Creators, q \in QuoteIds :
                   /\ resp'.op = "item_update" =>
                         \A inp \in ItemInputs :
                            item_update(c, q, i, inp)
                            => resp'.code \in {400, 404} /\ items' = items
                   /\ resp'.op = "item_destroy" =>
                         (item_destroy(c, q, i)
                          => resp'.code \in {400, 404} /\ items' = items)
         ]_vars

\* A Price request stopped after locking the first of two items, and the
\* buyer's request on the locked item has just been rejected.
C3_Witness ==
    /\ resp.op \in {"item_update", "item_destroy"} /\ resp.code = 400
    /\ \A r \in DOMAIN runs : runs[r] = Idle
    /\ \E i, j \in DOMAIN items :
          /\ items[i].quote = items[j].quote
          /\ Locked(items[i]) /\ ~Locked(items[j])

\* C4: a configuration change (a paper, material, printing-rate or finishing
\* price changed, a rate deactivated, one of them removed) leaves every
\* locked item's stored unit_price and line_total, its lock, and the result
\* of calculate_quote_item(item, force=False) as they were.
C4_LockedPricesSurviveConfigChanges ==
    [][ cfg' # cfg =>
          \A i \in DOMAIN items :
             Locked(items[i]) =>
                /\ i \in DOMAIN items'
                /\ items'[i].unit_price = items[i].unit_price
                /\ items'[i].line_total = items[i].line_total
                /\ items'[i].pricing_locked_at = items[i].pricing_locked_at
                /\ calculate_quote_item(cfg', items'[i], FALSE)
                   = calculate_quote_item(cfg, items[i], FALSE)
      ]_vars

\* The configuration has changed under a locked item whose price would now
\* be calculated differently.
C4_Witness ==
    /\ cfgChanges > 0
    /\ cfg # InitCfg
    /\ \E i \in DOMAIN items :
          /\ Locked(items[i])
          /\ calculate_quote_item(cfg, items[i], TRUE) # calculate_quote_item(cfg, items[i], FALSE)

\* The amount a stored value stands for: 0 where it is absent.
StoredAmount(v) == IF v = NULL THEN 0 ELSE v * Scale

\* C5: for a locked item, calculate_quote_item(item, force=False) returns the
\* stored unit_price and line_total (0 where a stored value is absent),
\* returns the same pair when it is called again, and leaves the item as it
\* was.
C5_LockedItemReturnsStored ==
    [][ calc'.fn = "calculate_quote_item" =>
          \A i \in DOMAIN items :
             (Locked(items[i]) /\ call_calculate_quote_item(i, FALSE)) =>
                /\ calc'.result.unit_num = StoredAmount(items[i].unit_price) * calc'.result.unit_den
                /\ calc'.result.line_total = StoredAmount(items[i].line_total)
                /\ items' = items
                /\ (calc.fn = "calculate_quote_item" /\ calc.item = i /\ ~calc.force)
                   => calc'.result = calc.result
      ]_vars

\* The unforced call was made twice in a row on a locked item with no stored
\* values, after the configuration changed.
C5_Witness ==
    /\ calc.fn = "calculate_quote_item" /\ ~calc.force
    /\ calc.item \in DOMAIN items
    /\ Locked(items[calc.item])
    /\ items[calc.item].unit_price = NULL
    /\ calc.result = Zero
    /\ calculate_unlocked(cfg, items[calc.item]) # Zero
    /\ cfgChanges > 0

\* The item as it would be were it not locked.
Unlocked(item) == [item EXCEPT !.pricing_locked_at = NULL]

\* C6: calculate_quote_item(item, force=True) on a locked item returns what it
\* returns for the same item without the lock, from the current
\* configuration.
C6_ForcedIgnoresLock ==
    [][ calc'.fn = "calculate_quote_item" =>
          \A i \in DOMAIN items :
             (Locked(items[i]) /\ call_calculate_quote_item(i, TRUE)) =>
                /\ calc'.result = calculate_quote_item(cfg, Unlocked(items[i]), FALSE)
                /\ calc'.result = calculate_quote_item(cfg, Unlocked(items[i]), TRUE)
      ]_vars

\* A forced call on a locked item returned something else than the stored
\* pair, under a changed configuration.
C6_Witness ==
    /\ calc.fn = "calculate_quote_item" /\ calc.force
    /\ calc.item \in DOMAIN items
    /\ Locked(items[calc.item])
    /\ items[calc.item].line_total # NULL
    /\ calc.result.line_total # StoredAmount(items[calc.item].line_total)
    /\ calc.result.line_total > 0
    /\ cfg # InitCfg

\* C7: while a quote is PRICED or SENT every item of it is locked and the
\* persisted total is the sum of the persisted line totals of its items.
C7_TotalIsSumOfLineTotals ==
    \A q \in DOMAIN quotes :
       quotes[q].status \in {"PRICED", "SENT"} =>
          /\ \A i \in ItemsOf(items, q) : Locked(items[i])
          /\ quotes[q].total = SumLineTotals(items, ItemsOf(items, q))

\* The selected services of a quote whose price resolves.
ResolvedServices(c, svcs) ==
    {s \in svcs : s.is_selected
                  /\ get_service_price(c.service[s.service_rate], s.price_override,
                                       s.distance_km) # NULL}

RECURSIVE SumServicePrices(_, _)
SumServicePrices(c, svcs) ==
    IF svcs = {} THEN 0
    ELSE LET s == CHOOSE x \in svcs : TRUE
         IN  get_service_price(c.service[s.service_rate], s.price_override, s.distance_km) * Scale
             + SumServicePrices(c, svcs \ {s})

RECURSIVE SumFresh(_, _, _)
\* The sum of the line totals calculated afresh for the items ids.
SumFresh(c, its, ids) ==
    IF ids = {} THEN 0
    ELSE LET i == CHOOSE x \in ids : TRUE
         IN  calculate_unlocked(c, its[i]).line_total + SumFresh(c, its, ids \ {i})

\* C8: calculate_quote_request(quote, lock=True) stores for every item the
\* freshly calculated unit_price and line_total and a lock timestamp, sets
\* the status to PRICED and the stored total to the sum of the items' line
\* totals plus the price of every selected quote-level service that
\* resolves; the other services add nothing.
C8_LockPersistsFreshPrices ==
    [][ calc'.fn = "calculate_quote_request" =>
          \A q \in DOMAIN quotes :
             calculate_quote_request(q, TRUE) =>
                /\ \A i \in ItemsOf(items, q) :
                      LET fresh == calculate_unlocked(cfg, items[i])
                      IN  /\ i \in DOMAIN items'
                          /\ items'[i].unit_price = Quantize2(fresh.unit_num, fresh.unit_den)
                          /\ items'[i].line_total = Quantize2(fresh.line_total, 1)
                          /\ Locked(items'[i])
                /\ quotes'[q].status = "PRICED"
                /\ quotes'[q].total =
                      Quantize2(SumFresh(cfg, items, ItemsOf(items, q))
                                + SumServicePrices(cfg, ResolvedServices(cfg, quotes[q].services)), 1)
      ]_vars

\* A locking call has priced a quote that has a selected service with a
\* price, and a selected one without, over items that held other prices.
C8_Witness ==
    /\ calc.fn = "calculate_quote_request" /\ calc.lock
    /\ quotes[calc.q].status = "PRICED"
    /\ \E s, u \in quotes[calc.q].services :
          /\ s \in ResolvedServices(cfg, quotes[calc.q].services)
          /\ u.is_selected /\ u \notin ResolvedServices(cfg, quotes[calc.q].services)
    /\ quotes[calc.q].total > 50
    /\ \A i \in ItemsOf(items, calc.q) : Locked(items[i]) /\ items[i].line_total # 14

\* The Price requests in progress on the quote q.
RunsOn(q) == {r \in DOMAIN runs : runs[r].st = "loop" /\ runs[r].q = q}

\* C9: locking is all or nothing: when no Price request is in progress on a
\* quote, either none of its items is locked, or all of them are and the
\* quote is PRICED (or SENT) with the total of that lock.
C9_LockAllOrNothing ==
    \A q \in DOMAIN quotes :
       RunsOn(q) = {} =>
          \/ \A i \in ItemsOf(items, q) : ~Locked(items[i])
          \/ /\ \A i \in ItemsOf(items, q) : Locked(items[i])
             /\ quotes[q].status \in {"PRICED", "SENT"}

\* C10: two Price requests for one quote are serialized: at most one of them
\* is in its lock loop at a time.
C10_PriceRequestsSerialized ==
    \A q \in DOMAIN quotes : Cardinality(RunsOn(q)) <= 1

\* Two Price requests on one quote have both ended, and the stored total is
\* further from the sum of the stored line totals than rounding explains.
C10_LostUpdate ==
    /\ resp = [op |-> "price", code |-> 200]
    /\ \E q \in DOMAIN quotes :
          /\ quotes[q].status = "PRICED"
          /\ RunsOn(q) = {}
          /\ \A i \in ItemsOf(items, q) : Locked(items[i])
          /\ LET sum == SumLineTotals(items, ItemsOf(items, q))
             IN  quotes[q].total > sum + MaxItems \/ quotes[q].total < sum - MaxItems

\* The caller a transition is for: the creator for submit and request-quote,
\* the shop owner for price and send.
RightActor(op, c, q) ==
    IF op \in {"submit", "request_quote"} THEN quotes[q].created_by = c ELSE ShopOwner = c

\* The status a transition starts from.
FromStatus(op) ==
    CASE op \in {"submit", "request_quote"} -> "DRAFT"
      [] op = "price" -> "SUBMITTED"
      [] op = "send" -> "PRICED"

\* The step is the transition request op by caller c on the quote q.
Transition(op, c, q) ==
    CASE op = "submit" -> submit(c, q)
      [] op = "request_quote" -> request_quote(c, q)
      [] op = "price" -> price(c, q)
      [] op = "send" -> send(c, q)

TransitionOps == {"submit", "request_quote", "price", "send"}

\* The precondition of the transition op fails for caller c on the existing
\* quote q.
Violates(op, c, q) ==
    q \in DOMAIN quotes /\ ~(RightActor(op, c, q) /\ quotes[q].status = FromStatus(op))

\* C11 as stated: a transition request that violates its precondition
\* answers 403 when the caller is the wrong actor and 400 when only the
\* status is wrong, and leaves the quote requests and the items unchanged.
C11_RejectedWith400Or403 ==
    [][ resp'.op \in TransitionOps =>
          \A c \in Users, q \in QuoteIds :
             (Violates(resp'.op, c, q) /\ Transition(resp'.op, c, q))
             => /\ resp'.code = (IF RightActor(resp'.op, c, q) THEN 400 ELSE 403)
                /\ quotes' = quotes /\ items' = items
      ]_vars

\* C11: a transition request that violates its precondition is rejected and
\* leaves the quote requests and the items (status, total, item prices, lock
\* timestamps) unchanged; the answer is 404 when submit, price or send is
\* called by a user who neither created the quote nor owns the shop, 403 for
\* any other wrong actor, and 400 when only the status is wrong.
C11_RejectedUnchanged ==
    [][ resp'.op \in TransitionOps =>
          \A c \in Users, q \in QuoteIds :
             (Violates(resp'.op, c, q) /\ Transition(resp'.op, c, q))
             => /\ resp'.code = (IF resp'.op # "request_quote" /\ ~Visible(c, q) THEN 404
                                 ELSE IF ~RightActor(resp'.op, c, q) THEN 403
                                 ELSE 400)
                /\ quotes' = quotes /\ items' = items
      ]_vars

\* A price request was answered 400 while every quote is PRICED, has a total
\* and a locked item: the request was for an already priced quote.
C11_Witness ==
    /\ resp = [op |-> "price", code |-> 400]
    /\ quotes # <<>>
    /\ \A q \in DOMAIN quotes :
          /\ quotes[q].status = "PRICED" /\ quotes[q].total # NULL
          /\ \E i \in ItemsOf(items, q) : items[i].pricing_locked_at # NULL

\* C12: a successful submit (or request-quote) changes the status of one
\* DRAFT quote to SUBMITTED and nothing else: no item (unit price, line
\* total, lock timestamp), no quote total, no other quote, and no pricing
\* function is called.
C12_SubmitChangesOnlyStatus ==
    [][ (resp'.op \in {"submit", "request_quote"} /\ resp'.code = 200) =>
          /\ \E q \in DOMAIN quotes :
                /\ quotes[q].status = "DRAFT"
                /\ quotes' = [quotes EXCEPT ![q].status = "SUBMITTED"]
          /\ items' = items
          /\ calc' = calc
          /\ \A i \in DOMAIN items' :
                items'[i].quote \in DOMAIN quotes' /\ quotes'[items'[i].quote].status = "SUBMITTED"
                => /\ items'[i].unit_price = NULL /\ items'[i].line_total = NULL
                   /\ items'[i].pricing_locked_at = NULL
      ]_vars

\* A submit has succeeded on a quote that has an item, which is still without
\* prices and lock.
C12_Witness ==
    /\ resp.op \in {"submit", "request_quote"} /\ resp.code = 200
    /\ \E i \in DOMAIN items :
          /\ quotes[items[i].quote].status = "SUBMITTED"
          /\ items[i].line_total = NULL /\ items[i].pricing_locked_at = NULL

\* C13: a preview changes nothing that is persisted: the quote requests
\* (status, total) and the items (unit price, line total, lock timestamp)
\* are the same before and after the preview-price request, whatever it
\* answers, and before and after calculate_quote_request with lock=False.
C13_PreviewChangesNothing ==
    [][ /\ resp'.op = "preview_price" =>
              \A c \in Users, q \in QuoteIds :
                 preview_price(c, q) => quotes' = quotes /\ items' = items
        /\ (calc'.fn = "calculate_quote_request" /\ ~calc'.lock) =>
              \A q \in QuoteIds :
                 calculate_quote_request(q, FALSE) => quotes' = quotes /\ items' = items
      ]_vars

\* A preview has answered with a positive total and an item that needs
\* review, and the draft and its items are still without total, prices and
\* lock.
C13_Witness ==
    /\ resp = [op |-> "preview_price", code |-> 200]
    /\ calc.fn = "build_preview_price_response"
    /\ calc.result.total > 0 /\ calc.result.needs_review_items # {}
    /\ quotes[calc.q].status = "DRAFT" /\ quotes[calc.q].total = NULL
    /\ \A i \in ItemsOf(items, calc.q) :
          /\ items[i].unit_price = NULL /\ items[i].line_total = NULL
          /\ items[i].pricing_locked_at = NULL

\* The quote q is SUBMITTED or later and c is its buyer.
BuyerOfSubmitted(c, q) ==
    /\ q \in DOMAIN quotes /\ quotes[q].created_by = c
    /\ StatusRank(quotes[q].status) >= 1

\* The request was rejected and the quote q and its items are as before.
RejectedKeeping(q) ==
    /\ resp'.code \in {400, 403, 404}
    /\ q \in DOMAIN quotes' /\ quotes'[q] = quotes[q]
    /\ ItemsOf(items', q) = ItemsOf(items, q)
    /\ \A i \in ItemsOf(items, q) : items'[i] = items[i]

\* C14: once a quote request is SUBMITTED or later, every header update,
\* deletion of the quote request, item add, item edit and item remove made
\* by its buyer is rejected and leaves the quote request and its items as
\* they were.
C14_NoBuyerWriteAfterSubmit ==
    [][ \A c \in Users, q \in QuoteIds :
          BuyerOfSubmitted(c, q) =>
             /\ resp'.op = "update" =>
                   \A n \in {0, 1} : update(c, q, n) => RejectedKeeping(q)
             /\ resp'.op = "destroy" => (destroy(c, q) => RejectedKeeping(q))
             /\ resp'.op = "item_create" =>
                   \A inp \in ItemInputs : item_create(c, q, inp) => RejectedKeeping(q)
             /\ resp'.op = "item_update" =>
                   \A i \in ItemIds, inp \in ItemInputs :
                      item_update(c, q, i, inp) => RejectedKeeping(q)
             /\ resp'.op = "item_destroy" =>
                   \A i \in ItemIds : item_destroy(c, q, i) => RejectedKeeping(q)
      ]_vars

\* The rows a request body or an item refers to all belong to the quote's
\* shop.
RefsInShop(row) ==
    /\ \A pk \in {row.product, row.paper, row.material, row.machine} :
          pk = NoId \/ shop_of(pk) = ShopId
    /\ \A f \in row.finishings : shop_of(f.finishing_rate) = ShopId

\* C15: every item's product, paper, material, machine and finishing rates
\* belong to the shop of its quote request, and an item create or update by
\* the buyer of a draft whose body names a row of another shop is answered
\* 400 and changes no item.
C15_ItemsBelongToShop ==
    /\ [](\A i \in DOMAIN items : RefsInShop(items[i]))
    /\ [][ \A c \in Users, q \in QuoteIds :
             IsCreatorOfDraft(c, q) =>
                /\ resp'.op = "item_create" =>
                      \A inp \in ForeignInputs :
                         item_create(c, q, inp) => resp'.code = 400 /\ items' = items
                /\ resp'.op = "item_update" =>
                      \A i \in ItemsOf(items, q), inp \in ForeignInputs :
                         item_update(c, q, i, inp) => resp'.code = 400 /\ items' = items
         ]_vars

\* An item has a finishing whose rate belongs to another shop.
C15_ForeignFinishingAttached ==
    \E i \in DOMAIN items : \E f \in items[i].finishings : shop_of(f.finishing_rate) # ShopId

\* The item has a quantity and a valid type: PRODUCT with its product, or
\* CUSTOM with a title or a spec text.
ValidItem(item) ==
    /\ item.quantity > 0
    /\ \/ item.item_type = "PRODUCT" /\ item.product # NoId
       \/ item.item_type = "CUSTOM" /\ item.has_text

\* C16: for every unlocked item with a quantity and a valid type, the line
\* total of calculate_quote_item is positive if and only if
\* get_quote_item_missing_fields returns no missing field.
C16_Duality ==
    \A i \in DOMAIN items :
       (items[i].pricing_locked_at = NULL /\ ValidItem(items[i]))
       => (calculate_quote_item(cfg, items[i], FALSE).line_total > 0
           <=> get_quote_item_missing_fields(cfg, items[i]) = <<>>)

\* calculate_quote_item was called on an unlocked valid item and returned a
\* positive line total, while the item has missing fields.
C16_PositiveWithMissingFields ==
    /\ calc.fn = "calculate_quote_item" /\ calc.item \in DOMAIN items
    /\ items[calc.item].pricing_locked_at = NULL /\ ValidItem(items[calc.item])
    /\ calc.result = calculate_quote_item(cfg, items[calc.item], FALSE)
    /\ calc.result.line_total > 0
    /\ get_quote_item_missing_fields(cfg, items[calc.item]) # <<>>

\* The item lacks what the claim C17 lists: a quantity, the product of a
\* PRODUCT item, title and spec text of a CUSTOM item, the paper in SHEET
\* mode, or the material, the width or the height in LARGE_FORMAT mode.
Incomplete(c, item) ==
    \/ item.quantity <= 0
    \/ item.item_type = "PRODUCT" /\ item.product = NoId
    \/ item.item_type = "CUSTOM" /\ ~item.has_text
    \/ get_effective_pricing_mode(c, item) = "SHEET" /\ item.paper = NoId
    \/ /\ get_effective_pricing_mode(c, item) = "LARGE_FORMAT"
       /\ \/ item.material = NoId
          \/ ~Truthy(item.chosen_width_mm) \/ ~Truthy(item.chosen_height_mm)

\* C17: calculate_quote_item on an unlocked item returns (0, 0) whenever the
\* quantity is not positive, a PRODUCT item has no product, a CUSTOM item
\* has neither title nor spec text, a SHEET item has no paper, or a
\* LARGE_FORMAT item lacks material, width or height.
C17_ZeroWhenIncomplete ==
    \A i \in DOMAIN items :
       (items[i].pricing_locked_at = NULL /\ Incomplete(cfg, items[i]))
       => LET r == calculate_quote_item(cfg, items[i], FALSE)
          IN  r.unit_num = 0 /\ r.line_total = 0

\* calculate_quote_item was called on an unlocked CUSTOM item without title
\* and spec text and returned a positive line total.
C17_CustomWithoutTextPriced ==
    /\ calc.fn = "calculate_quote_item" /\ calc.item \in DOMAIN items
    /\ items[calc.item].pricing_locked_at = NULL
    /\ items[calc.item].item_type = "CUSTOM" /\ ~items[calc.item].has_text
    /\ calc.result = calculate_quote_item(cfg, items[calc.item], FALSE)
    /\ calc.result.line_total > 0

\* A valid unlocked SHEET item with paper, machine, sides and color mode for
\* which no active printing rate matches.
MissingPrintingRate(c, item) ==
    /\ item.pricing_locked_at = NULL /\ ValidItem(item)
    /\ get_effective_pricing_mode(c, item) = "SHEET"
    /\ item.paper # NoId /\ item.machine # NoId /\ item.sides # "" /\ item.color_mode # ""
    /\ ~resolve_finds_rate(c, item.machine, c.paper.sheet_size, item.color_mode)

\* The diagnostics of the item name the missing printing rate: the flat
\* missing fields contain printing_rate and the suggestions contain
\* ADD_PRINTING_RATE with the machine's name and the paper's sheet size.
PrintingRateDiagnosed(c, item) ==
    LET flat == missing_fields_for_item(c, item)
    IN  /\ "printing_rate" \in Elems(flat)
        /\ \E sg \in Elems(build_item_diagnostics(c, item, flat).suggestions) :
              /\ sg.code = "ADD_PRINTING_RATE"
              /\ sg.names[1] = c.machine.name /\ sg.names[2] = c.paper.sheet_size

\* C18: for a SHEET item with paper, machine, sides and color mode but no
\* matching active printing rate, the line total is 0, the missing fields
\* contain the printing-rate category and the diagnostics contain an
\* ADD_PRINTING_RATE suggestion that names the machine and the sheet size.
C18_MissingRateZeroAndDiagnosed ==
    \A i \in DOMAIN items :
       MissingPrintingRate(cfg, items[i])
       => /\ calculate_quote_item(cfg, items[i], FALSE).line_total = 0
          /\ PrintingRateDiagnosed(cfg, items[i])

\* A preview reported an item as needing review for its printing rate, and
\* calculate_quote_item gives that item a positive line total.
C18_MissingRateStillPriced ==
    /\ resp = [op |-> "preview_price", code |-> 200]
    /\ calc.fn = "build_preview_price_response"
    /\ \E i \in calc.result.needs_review_items :
          /\ i \in DOMAIN items /\ MissingPrintingRate(cfg, items[i])
          /\ PrintingRateDiagnosed(cfg, items[i])
          /\ "ADD_PRINTING_RATE" \in {sg.code : sg \in Elems(calc.result.suggestions)}
          /\ calculate_quote_item(cfg, items[i], FALSE).line_total > 0

RECURSIVE SumFinishings(_, _, _, _, _)
\* The sum of apply_finishing_cost over the finishings fins of an item.
SumFinishings(c, item, fins, area, sheets_count) ==
    IF fins = {} THEN 0
    ELSE LET qif == CHOOSE f \in fins : TRUE
         IN  apply_finishing_cost(c.finishing[qif.finishing_rate], item.quantity, area,
                                  sides_count(item.sides), qif.price_override,
                                  qif.apply_to_sides, sheets_count)
             + SumFinishings(c, item, fins \ {qif}, area, sheets_count)

\* The line total of a SHEET item as C19 states it, in micro-cents; n is
\* the least number of sheets, at least one, that holds quantity pieces.
SheetLineTotal(c, item) ==
    LET paper == c.paper
        pieces == IF item.product # NoId /\ Truthy(paper.width_mm) /\ Truthy(paper.height_mm)
                  THEN get_copies_per_sheet(c.product, paper.width_mm, paper.height_mm)
                  ELSE 1
        counts == 1..Max2(1, item.quantity)
        n == CHOOSE k \in counts :
                /\ k * pieces >= item.quantity
                /\ \A m \in counts : m * pieces >= item.quantity => k <= m
        rate_price == IF item.machine # NoId /\ item.sides # "" /\ item.color_mode # ""
                         /\ resolve_finds_rate(c, item.machine, paper.sheet_size, item.color_mode)
                      THEN get_price_for_sides(c.rate, item.sides)
                      ELSE NULL
    IN  paper.selling_price * n * Scale
        + (IF rate_price # NULL THEN rate_price * n * Scale ELSE 0)
        + SumFinishings(c, item, item.finishings, sheet_area_sqm(paper) * n, n)
        + SumServicePrices(c, ResolvedServices(c, ItemServices(item)))

\* An unlocked item with a quantity whose effective pricing mode is mode.
UnlockedInMode(c, item, mode) ==
    /\ item.pricing_locked_at = NULL /\ item.quantity > 0
    /\ get_effective_pricing_mode(c, item) = mode

\* C19 as stated: for every unlocked SHEET item with paper and a quantity,
\* line_total = paper price * sheets + printing price * sheets (when machine,
\* sides and color mode are set and a rate resolves) + finishing costs +
\* the resolved selected item services, and unit_price = line_total /
\* quantity.
C19_SheetLineTotalAnyItem ==
    \A i \in DOMAIN items :
       (UnlockedInMode(cfg, items[i], "SHEET") /\ items[i].paper # NoId)
       => LET r == calculate_quote_item(cfg, items[i], FALSE)
          IN  /\ r.line_total = SheetLineTotal(cfg, items[i])
              /\ r.unit_num * items[i].quantity = r.line_total * r.unit_den

\* C19: the same for every such item that is not a PRODUCT item without
\* product.
C19_SheetLineTotal ==
    \A i \in DOMAIN items :
       (UnlockedInMode(cfg, items[i], "SHEET") /\ items[i].paper # NoId
        /\ ~(items[i].item_type = "PRODUCT" /\ items[i].product = NoId))
       => LET r == calculate_quote_item(cfg, items[i], FALSE)
          IN  /\ r.line_total = SheetLineTotal(cfg, items[i])
              /\ r.unit_num * items[i].quantity = r.line_total * r.unit_den

\* calculate_quote_item was called on the PRODUCT item of 5 pieces, 4 to a
\* sheet, with a selected service: 2 sheets of paper at 10, printing at 15,
\* the flat finishing 7 + 5 and the service 50 make 112.
C19_Witness ==
    /\ calc.fn = "calculate_quote_item" /\ calc.item \in DOMAIN items
    /\ calc.result = calculate_quote_item(cfg, items[calc.item], FALSE)
    /\ UnlockedInMode(cfg, items[calc.item], "SHEET")
    /\ items[calc.item].product # NoId /\ items[calc.item].quantity = 5
    /\ get_copies_per_sheet(cfg.product, cfg.paper.width_mm, cfg.paper.height_mm) = 4
    /\ calc.result.line_total = 112 * Scale

\* The line total of a LARGE_FORMAT item as C20 states it, in micro-cents:
\* the area (w / 1000) * (h / 1000) * quantity m2 is w * h * quantity mm2.
LargeFormatLineTotal(c, item) ==
    LET area == item.chosen_width_mm * item.chosen_height_mm * item.quantity
    IN  c.material.selling_price * area
        + SumFinishings(c, item, item.finishings, area, 0)
        + SumServicePrices(c, ResolvedServices(c, ItemServices(item)))

\* C20 as stated: for every unlocked LARGE_FORMAT item with material, width,
\* height and a quantity, area = (w / 1000) * (h / 1000) * quantity,
\* line_total = material price * area + finishing costs + the resolved
\* selected item services, and unit_price = line_total / quantity.
C20_LargeFormatLineTotalAnyItem ==
    \A i \in DOMAIN items :
       (UnlockedInMode(cfg, items[i], "LARGE_FORMAT") /\ items[i].material # NoId
        /\ Truthy(items[i].chosen_width_mm) /\ Truthy(items[i].chosen_height_mm))
       => LET r == calculate_quote_item(cfg, items[i], FALSE)
          IN  /\ r.line_total = LargeFormatLineTotal(cfg, items[i])
              /\ r.unit_num * items[i].quantity = r.line_total * r.unit_den

\* C20: the same for every such item that is not a PRODUCT item without
\* product.
C20_LargeFormatLineTotal ==
    \A i \in DOMAIN items :
       (UnlockedInMode(cfg, items[i], "LARGE_FORMAT") /\ items[i].material # NoId
        /\ Truthy(items[i].chosen_width_mm) /\ Truthy(items[i].chosen_height_mm)
        /\ ~(items[i].item_type = "PRODUCT" /\ items[i].product = NoId))
       => LET r == calculate_quote_item(cfg, items[i], FALSE)
          IN  /\ r.line_total = LargeFormatLineTotal(cfg, items[i])
              /\ r.unit_num * items[i].quantity = r.line_total * r.unit_den

\* calculate_quote_item was called on the item of 2 pieces of 700 x 700 mm
\* with the per-m2 finishing: 980000 mm2 at 3 for the material and at 2 for
\* the finishing.
C20_Witness ==
    /\ calc.fn = "calculate_quote_item" /\ calc.item \in DOMAIN items
    /\ calc.result = calculate_quote_item(cfg, items[calc.item], FALSE)
    /\ UnlockedInMode(cfg, items[calc.item], "LARGE_FORMAT")
    /\ items[calc.item].quantity = 2 /\ items[calc.item].finishings # {}
    /\ calc.result.line_total >= (3 + 2) * 980000
    /\ calc.result.unit_den = 2

\* C21: pieces_per_sheet(w, h, sw, sh, bleed) is
\* max(1, floor(sw/pw) * floor(sh/ph), floor(sw/ph) * floor(sh/pw)) with
\* pw = w + 2 * bleed and ph = h + 2 * bleed, it is 1 whenever pw, ph, sw or
\* sh is not positive, and so it is at least 1 for every input.
C21_PiecesPerSheet ==
    calc.fn = "pieces_per_sheet"
    => LET pw == calc.args[1] + 2 * calc.args[5]
           ph == calc.args[2] + 2 * calc.args[5]
           sw == calc.args[3]
           sh == calc.args[4]
           \* the whole number of times a length b > 0 fits into a >= 0
           FitCount(a, b) == CHOOSE k \in 0..a : k * b <= a /\ (k + 1) * b > a
       IN  /\ calc.result >= 1
           /\ (pw <= 0 \/ ph <= 0 \/ sw <= 0 \/ sh <= 0) => calc.result = 1
           /\ (pw > 0 /\ ph > 0 /\ sw > 0 /\ sh > 0)
              => LET upright == FitCount(sw, pw) * FitCount(sh, ph)
                     rotated == FitCount(sw, ph) * FitCount(sh, pw)
                 IN  /\ calc.result >= upright /\ calc.result >= rotated
                     /\ calc.result \in {1, upright, rotated}

\* pieces_per_sheet was called with the 170 x 140 mm piece on SRA3, where
\* only the rotated orientation gives 4.
C21_Witness ==
    /\ calc.fn = "pieces_per_sheet"
    /\ calc.args = <<170, 140, 320, 450, 3>>
    /\ calc.result = 4

\* C22: sheets_needed(quantity, pieces) is max(1, ceil(quantity / pieces))
\* for pieces > 0 and max(1, quantity) for pieces <= 0; for quantity >= 1 and
\* pieces >= 1 it is the least s with s * pieces >= quantity.
C22_SheetsNeeded ==
    calc.fn = "sheets_needed"
    => LET quantity == calc.args[1]
           pieces == calc.args[2]
           range == -(MaxQuantity + 2)..(MaxQuantity + 2)
           ceil == CHOOSE n \in range :
                      /\ n * pieces >= quantity
                      /\ \A m \in range : m * pieces >= quantity => n <= m
       IN  /\ pieces > 0 => calc.result = (IF ceil >= 1 THEN ceil ELSE 1)
           /\ pieces <= 0 => calc.result = (IF quantity >= 1 THEN quantity ELSE 1)
           /\ (quantity >= 1 /\ pieces >= 1)
              => /\ calc.result * pieces >= quantity
                 /\ \A m \in 1..quantity : m * pieces >= quantity => calc.result <= m

\* sheets_needed was called with 10 pieces at 4 to a sheet: 3 sheets.
C22_Witness ==
    /\ calc.fn = "sheets_needed"
    /\ calc.args = <<10, 4>>
    /\ calc.result = 3

\* The items of the quote q that have at least one missing field.
WithMissingFields(q) ==
    {i \in ItemsOf(items, q) : get_quote_item_missing_fields(cfg, items[i]) # <<>>}

\* C23 as stated: the preview reports needs_review_items as exactly the items
\* with a missing field, can_calculate exactly when there is none, an
\* items_missing_fields and item_diagnostics entry for exactly those items,
\* total as the sum of the line totals of the remaining items, and for a
\* quote without items total 0, no lines and can_calculate.
C23_PreviewContents ==
    (calc.fn = "build_preview_price_response" /\ resp = [op |-> "preview_price", code |-> 200])
    => LET r == calc.result
           ids == ItemsOf(items, calc.q)
       IN  /\ r.needs_review_items = WithMissingFields(calc.q)
           /\ r.can_calculate <=> WithMissingFields(calc.q) = {}
           /\ DOMAIN r.items_missing_fields = WithMissingFields(calc.q)
           /\ DOMAIN r.item_diagnostics = WithMissingFields(calc.q)
           /\ r.total = SumCalculated(cfg, items, ids \ WithMissingFields(calc.q), FALSE)
           /\ ids = {} => r.total = 0 /\ r.lines = {} /\ r.can_calculate

\* C23: the same, with total the sum of the line totals that are positive.
C23_PreviewContentsPositiveLines ==
    (calc.fn = "build_preview_price_response" /\ resp = [op |-> "preview_price", code |-> 200])
    => LET r == calc.result
           ids == ItemsOf(items, calc.q)
           positive == {i \in ids \ WithMissingFields(calc.q) :
                          calculate_quote_item(cfg, items[i], FALSE).line_total > 0}
       IN  /\ r.needs_review_items = WithMissingFields(calc.q)
           /\ r.can_calculate <=> WithMissingFields(calc.q) = {}
           /\ DOMAIN r.items_missing_fields = WithMissingFields(calc.q)
           /\ DOMAIN r.item_diagnostics = WithMissingFields(calc.q)
           /\ r.total = SumCalculated(cfg, items, positive, FALSE)
           /\ ids = {} => r.total = 0 /\ r.lines = {} /\ r.can_calculate

\* A preview of a quote with one item that needs review and one that is
\* priced.
C23_Witness ==
    /\ calc.fn = "build_preview_price_response"
    /\ resp = [op |-> "preview_price", code |-> 200]
    /\ calc.result.needs_review_items = {1}
    /\ ~calc.result.can_calculate
    /\ calc.result.total > 0
    /\ calc.result.total = calculate_quote_item(cfg, items[2], FALSE).line_total

\* C24: the preview response has hasNegotiable = true if and only if some
\* selected service on any item of the quote, whether or not that item needs
\* review, has no price override and a pricing type other than FIXED.
C24_HasNegotiable ==
    (calc.fn = "build_preview_price_response" /\ resp = [op |-> "preview_price", code |-> 200])
    => (calc.result.hasNegotiable
        <=> \E i \in ItemsOf(items, calc.q) : \E qis \in items[i].services :
               /\ qis.is_selected /\ qis.price_override = NULL
               /\ cfg.service[qis.service_rate].pricing_type # "FIXED")

\* A preview answered hasNegotiable = false for a quote whose item in need
\* of review has a selected distance-priced service without override.
C24_NegotiableOnReviewItemMissed ==
    /\ calc.fn = "build_preview_price_response"
    /\ resp = [op |-> "preview_price", code |-> 200]
    /\ ~calc.result.hasNegotiable
    /\ \E i \in calc.result.needs_review_items : \E qis \in items[i].services :
          /\ qis.is_selected /\ qis.price_override = NULL
          /\ cfg.service[qis.service_rate].pricing_type = "TIERED_DISTANCE"

\* C25: for every item the missing-fields detector reports as incomplete the
\* item diagnostics of the preview hold at least one suggestion, every kind
\* of missing data reported for it has its suggestion code among them, and
\* no two suggestions of the item share a code.
C25_EveryMissingFieldSuggested ==
    (calc.fn = "build_preview_price_response" /\ resp = [op |-> "preview_price", code |-> 200])
    => LET \* the suggestion code for one kind of missing data, "" for a
           \* kind that is not listed
           SuggestionCode(pair) ==
           LET model_label == pair[1]
               field_name == pair[2]
           IN  IF model_label = "PrintingRate" THEN "ADD_PRINTING_RATE"
               ELSE IF model_label = "Product" THEN "ADD_DIMENSIONS"
               ELSE IF model_label = "Paper" /\ field_name = "selling_price" THEN "ADD_PAPER"
               ELSE IF model_label = "Paper" THEN "ADD_DIMENSIONS"
               ELSE IF model_label = "Material" THEN "ADD_MATERIAL_PRICE"
               ELSE IF field_name = "paper" THEN "ADD_PAPER"
               ELSE IF field_name = "material" THEN "ADD_MATERIAL_PRICE"
               ELSE IF field_name = "title or spec_text" THEN "ADD_TITLE"
               ELSE IF field_name = "product" THEN "SELECT_PRODUCT"
               ELSE IF field_name = "quantity" THEN "ADD_QUANTITY"
               ELSE IF field_name = "machine" THEN "SELECT_MACHINE"
               ELSE IF field_name = "sides" THEN "SELECT_SIDES"
               ELSE IF field_name = "color_mode" THEN "SELECT_COLOR_MODE"
               ELSE IF field_name \in {"chosen_width_mm", "chosen_height_mm"} THEN "ADD_DIMENSIONS"
               ELSE ""
       IN
       \A i \in ItemsOf(items, calc.q) :
          get_quote_item_missing_fields(cfg, items[i]) # <<>>
          => /\ i \in DOMAIN calc.result.item_diagnostics
             /\ LET sug == calc.result.item_diagnostics[i].suggestions
                    codes == {sug[k].code : k \in DOMAIN sug}
                IN  /\ sug # <<>>
                    /\ \A pair \in Elems(get_quote_item_missing_fields(cfg, items[i])) :
                          SuggestionCode(pair) # "" => SuggestionCode(pair) \in codes
                    /\ \A k, l \in DOMAIN sug : sug[k].code = sug[l].code => k = l

\* A preview reported a CUSTOM item without title and spec text as
\* incomplete and gave no suggestion for it.
C25_TitleNotSuggested ==
    /\ calc.fn = "build_preview_price_response"
    /\ resp = [op |-> "preview_price", code |-> 200]
    /\ \E i \in calc.result.needs_review_items :
          /\ items[i].item_type = "CUSTOM" /\ ~items[i].has_text
          /\ calc.result.item_diagnostics[i].suggestions = <<>>

\* C26: _get_service_price returns the override whenever one is present;
\* otherwise the flat price of a FIXED rate; otherwise, for a
\* TIERED_DISTANCE rate, the price of the band with the greatest min_km
\* among the bands that contain the distance, and no price when the
\* distance is absent or no band contains it.  For the bands 0-5: 200,
\* 5-15: 350, 15+: 500 the distances 10 and 5 give 350.
C26_ServicePrice ==
    calc.fn = "_get_service_price"
    => LET rate == calc.args[1]
           override == calc.args[2]
           d == calc.args[3]
           BandsContaining(r, km) ==
               {t \in r.tiers : t.min_km <= km /\ (t.max_km = NULL \/ t.max_km >= km)}
       IN  /\ override # NULL => calc.result = override
           /\ (override = NULL /\ rate.pricing_type = "FIXED") => calc.result = rate.price
           /\ (override = NULL /\ rate.pricing_type = "TIERED_DISTANCE")
              => IF d = NULL \/ BandsContaining(rate, d) = {}
                 THEN calc.result = NULL
                 ELSE \E t \in BandsContaining(rate, d) :
                         /\ calc.result = t.price
                         /\ \A u \in BandsContaining(rate, d) : u.min_km <= t.min_km
           /\ (override = NULL /\ d \in {5, 10}
               /\ \E t \in rate.tiers : t.min_km = 5 /\ t.max_km = 15 /\ t.price = 350)
              => calc.result = 350

\* _get_service_price was called without override on the bands 0-5, 5-15,
\* 15+ at the shared boundary of 5 km and returned 350.
C26_Witness ==
    /\ calc.fn = "_get_service_price"
    /\ calc.args[2] = NULL /\ calc.args[3] = 5
    /\ {t.price : t \in calc.args[1].tiers} = {200, 350, 500}
    /\ calc.result = 350

\* The reference rule of C27 on the arguments args of _apply_finishing_cost
\* for a count of sheets, in micro-cents (the area in mm2 is the area in m2
\* times Scale).
FinishingRule(args, sheets) ==
    LET rate == args[1]
        quantity == args[2]
        area == args[3]
        override == args[5]
        single == IF override # NULL THEN override ELSE rate.price
        double == IF override # NULL THEN 2 * override
                  ELSE IF rate.double_side_price # NULL THEN rate.double_side_price
                  ELSE 2 * rate.price
        sides == CASE args[6] = "SINGLE" -> 1
                   [] args[6] = "DOUBLE" -> 2
                   [] OTHER -> args[4]
        per_side_price == IF sides = 2 THEN double ELSE single
        fee == IF rate.setup_fee # NULL THEN rate.setup_fee ELSE 0
    IN  CASE rate.charge_unit = "PER_PIECE" -> per_side_price * quantity * Scale
          [] rate.charge_unit = "PER_SIDE" -> single * quantity * sides * Scale
          [] rate.charge_unit = "PER_SHEET" -> (rate.price * sheets + fee) * Scale
          [] rate.charge_unit = "PER_SQM" -> rate.price * area
          [] rate.charge_unit = "FLAT" -> (per_side_price + fee) * Scale

\* C27 as stated: _apply_finishing_cost equals the reference rule for every
\* input, PER_SHEET being rate.price * sheets + setup fee for the sheets
\* passed to it.
C27_FinishingRuleAnySheets ==
    calc.fn = "_apply_finishing_cost" => calc.result = FinishingRule(calc.args, calc.args[7])

\* C27: the same, where for a sheet count of 0 PER_SHEET counts
\* max(1, quantity) sheets.
C27_FinishingRule ==
    calc.fn = "_apply_finishing_cost"
    => calc.result = FinishingRule(calc.args,
                                   IF calc.args[7] # 0 THEN calc.args[7]
                                   ELSE IF calc.args[2] >= 1 THEN calc.args[2] ELSE 1)

\* _apply_finishing_cost was called on a PER_SHEET rate with setup fee and
\* an override, for 2 sheets: 7 * 2 + 5.
C27_Witness ==
    /\ calc.fn = "_apply_finishing_cost"
    /\ calc.args[1].charge_unit = "PER_SHEET" /\ calc.args[1].setup_fee = 5
    /\ calc.args[5] = 4 /\ calc.args[7] = 2
    /\ calc.result = 19 * Scale

\* C28: the effective pricing mode of an item is the linked product's mode
\* for a PRODUCT item that has a product, whatever the item's own
\* pricing_mode; otherwise the item's own pricing_mode if set, otherwise
\* LARGE_FORMAT if a material is attached, otherwise SHEET; and the
\* diagnostics builder resolves the same mode as the pricing function and
\* the missing-fields detector.
C28_EffectivePricingMode ==
    calc.fn = "_get_effective_pricing_mode"
    => LET item == calc.args[1]
           mode == CASE item.item_type = "PRODUCT" /\ item.product # NoId -> calc.args[2]
                     [] OTHER -> CASE item.pricing_mode # "" -> item.pricing_mode
                                   [] OTHER -> CASE item.material # NoId -> "LARGE_FORMAT"
                                                 [] OTHER -> "SHEET"
       IN  /\ calc.result.pricing = mode
           /\ calc.result.diagnostics = calc.result.pricing

\* The mode was resolved for a PRODUCT item whose own pricing_mode is SHEET
\* and whose product is LARGE_FORMAT.
C28_Witness ==
    /\ calc.fn = "_get_effective_pricing_mode"
    /\ calc.args[1].item_type = "PRODUCT" /\ calc.args[1].product # NoId
    /\ calc.args[1].pricing_mode = "SHEET" /\ calc.args[2] = "LARGE_FORMAT"
    /\ calc.result = [pricing |-> "LARGE_FORMAT", diagnostics |-> "LARGE_FORMAT"]

\* C29: for every quote request, calculate_quote_request(quote, lock=True)
\* leaves the persisted state that the lock routine of the Price action,
\* recalculate_and_lock_quote_request, leaves from the same state: the same
\* item unit prices, line totals and lock flags, the same quote total and
\* the same status.
C29_LockRoutinesAgree ==
    [][ (calc'.fn = "calculate_quote_request" /\ calc'.lock) =>
          \A q \in DOMAIN quotes :
             calculate_quote_request(q, TRUE) => recalculate_and_lock_quote_request(q)
      ]_vars

\* calculate_quote_request(lock=True) has priced a quote with a selected
\* quote-level service that has a price, and the total it stored is not the
\* total of the locked items alone, which is what the lock routine of Price
\* stores.
C29_TotalsDiffer ==
    /\ calc.fn = "calculate_quote_request" /\ calc.lock
    /\ quotes[calc.q].status = "PRICED"
    /\ ResolvedServices(cfg, quotes[calc.q].services) # {}
    /\ \A i \in ItemsOf(items, calc.q) :
          Locked(items[i]) /\ items[i] = LockItem(cfg, items[i])
    /\ quotes[calc.q].total
          # Quantize2(SumCalculated(cfg, items, ItemsOf(items, calc.q), TRUE), 1)

\* The DRAFT quote requests of the user c.
DraftsOf(qs, c) == {q \in DOMAIN qs : qs[q].created_by = c /\ qs[q].status = "DRAFT"}

\* C30: when the active-draft request returns for a user, exactly one quote
\* request of that user is DRAFT, the one returned: the newest draft there
\* was, or a new one if there was none, every older draft being REJECTED;
\* also when two active-draft requests run concurrently.
C30_OneActiveDraft ==
    [][ resp'.op = "active" =>
          \A r \in RunIds :
             active_finish(r) =>
                /\ DraftsOf(quotes', calc'.caller) = {calc'.draft}
                /\ \A q \in DraftsOf(quotes, calc'.caller) : q <= calc'.draft
                /\ \A q \in DraftsOf(quotes, calc'.caller) \ {calc'.draft} :
                      quotes'[q].status = "REJECTED"
      ]_vars

\* Two active-draft requests of one user have both returned and the user
\* has two DRAFT quote requests.
C30_TwoActiveDrafts ==
    /\ resp = [op |-> "active", code |-> 200]
    /\ calc.fn = "active"
    /\ \A r \in RunIds : runs[r] = Idle
    /\ Cardinality(DraftsOf(quotes, calc.caller)) = 2
    /\ DOMAIN quotes = DraftsOf(quotes, calc.caller)

====
